---- MODULE Spec2Model ----
(***************************************************************************)
(* A model of the lash agent REPL core, src/lash/python/repl.py.           *)
(*                                                                         *)
(* The module holds several specifications over one set of variables; each *)
(* exercises one component and leaves the variables of the others at their *)
(* initial values:                                                         *)
(*   SpecHist         TurnHistory._add_turn with any turn record           *)
(*   SpecHistDefault  TurnHistory._add_turn with records without "index"   *)
(*   SpecExec         _handle_exec, the bridge and _call                   *)
(*   SpecProxy        the tool proxy fn built by _register_tools.make_fn *)
(*   SpecReg          _register_tools / _reset_repl bindings and dispatch  *)
(*   SpecRewrite      the auto-await rewriter _AutoAwait                   *)
(*   SpecGather       _call coroutines awaited together (asyncio.gather)   *)
(*   SpecAsk          _ask in headless and in interactive sessions         *)
(*   SpecSnap         snapshot, restore and reset commands across sessions *)
(*   SpecMem          Mem, and state a child session loads from its parent *)
(*   SpecHydrate      the value _call returns on a success envelope        *)
(*   SpecClaim        the generated proxy of the claim_task tool           *)
(*   SpecTask         blocks that call the methods of a Task handle        *)
(*   SpecPlan         the exit_plan_mode wrapper                           *)
(*   SpecRank         _rank_documents and the searches built on it         *)
(*   SpecFilter       searches with a regex argument                       *)
(*   SpecTools        turns added with tool calls                          *)
(*   SpecCopy         a history serialised and loaded again                *)
(*   SpecFind         history search with since_turn                       *)
(*   SpecWeight       hybrid ranking under scaled field weights            *)
(*   SpecScope        the rewriter over blocks of nested statements        *)
(*   SpecDefs         the rewriter over function definitions and lambdas   *)
(*   SpecReset        a session with history and memory that is reset      *)
(*   SpecOverlap      two exec handlers that overlap                       *)
(***************************************************************************)
EXTENDS Integers, Sequences, FiniteSets, TLC

VARIABLES
    \* ---- TurnHistory ----
    turns,          \* TurnHistory._turns: sequence of Turn records
    addCount,       \* number of _add_turn calls made so far (history variable)
    \* ---- _handle_exec: module state of the Python process ----
    sys_stdout,     \* identity of sys.stdout: "orig", "cur" (this handler's buffer), "stale"
    sys_stderr,     \* identity of sys.stderr
    sys_displayhook,\* identity of sys.displayhook: "orig" or "_displayhook"
    fd2,            \* what file descriptor 2 refers to: "stderr" or "devnull"
    ns,             \* _ns restricted to user names: the set of bound names
    \* ---- _handle_exec: locals of the running handler ----
    pc,             \* position of the handler
    exec_id,        \* the exec_id argument
    block,          \* the code argument (abstract syntax of the block)
    old_stdout, old_stderr, old_displayhook,
    saved_fd,       \* _saved_fd: "None" or what the saved descriptor refers to
    error,          \* the local error
    stdout_buf,     \* contents of stdout_buf: sequence of printed markers
    i,              \* index of the current top-level statement (1-based)
    pending,        \* the bridge call in flight, or NoCall
    reply,          \* result_json handed back by the bridge, or NoReply
    \* ---- history variables of the current turn ----
    sent,           \* frames sent to the host since the exec command arrived
    ran,            \* positions of the statements whose execution started
    raisedAt,       \* position of the statement that raised, 0 if none
    ns0,            \* ns when the exec command arrived
    mutes, unmutes, \* calls of _mute_stderr / _unmute_stderr by this handler
    bridgeLog,      \* invoke_tool calls that reached the bridge this turn
    returned,       \* positions of the statements whose _call got its result_json back
    underscore,     \* position of the statement whose value this turn's hook put in builtins._
    callOutcome,    \* outcome of the latest _call: returned value or raised exception
    \* ---- tool proxy ----
    proxyCall,      \* last proxy invocation: [args, kw] or NoInvocation
    dispatched,     \* arg-map the proxy handed to _call, or NoInvocation
    \* ---- tool registration ----
    tool_defs,      \* _tool_defs: name -> definition, for the names present
    tools_initialized,
    reg_ns,         \* _ns after registration: name -> kind of the bound object
    reg_T,          \* names bound on the ToolNamespace object T
    headless,       \* _headless
    agent_id,       \* _ns["__agent_id__"]
    async_tool_names,   \* _async_tool_names
    async_method_names, \* _async_method_names
    reg_bridge,     \* direct dispatches _call(name, ...): [name, reached the bridge]
    \* ---- auto-await rewriter ----
    rw_names,       \* the names _AutoAwait was constructed with (_async_tool_names)
    rw_tree,        \* the expression handed to visit
    rw_out,         \* the expression visit returned
    \* ---- tool calls awaited together ----
    g_n,            \* number of _call coroutines handed to asyncio.gather, 0 if none
    g_status,       \* per call: "new", "queued", "inflight", "answered", "received"
    g_queue,        \* work items of the default executor waiting for a worker
    g_answer,       \* per call: result_json the bridge returned to its worker
    g_order,        \* the calls in the order the host completed them
    g_result,       \* per call: the value its awaiter received
    \* ---- ask ----
    ask_pc,         \* position of an _ask invocation: "idle", "waiting", "done"
    ask_calls,      \* ask_user bridge calls the invocation has made
    ask_reply,      \* what the host's ask_user returned, or None
    ask_outcome,    \* how the invocation ended: a raised exception or a returned value
    \* ---- snapshot / restore / reset ----
    user_ns,        \* _ns entries bound by user code or by restore: name -> value
    host_blob,      \* the latest snapshot blob the host holds
    snap_src,       \* the candidates of that snapshot and whether dill resolved the module
    snap_frame,     \* the frame the latest command handler sent
    snap_op,        \* the command just handled: "none", "snapshot", "restore", "reset"
    pre_ns,         \* _ns when that command arrived
    \* ---- Mem, and state inherited from a parent agent ----
    mem_store,      \* Mem._store: key -> MemEntry
    mem_turn,       \* Mem._current_turn
    mem_stamp,      \* per key: the turn its latest write stamped, -1 if never written
    mem_op,         \* the Mem / TurnHistory operation just performed
    mem_pre,        \* Mem._store when that operation started
    \* ---- _call: the value returned on a success envelope ----
    hy_pc,          \* "idle" or "returned"
    hy_name,        \* the tool name given to _call
    hy_result,      \* result["result"] of the envelope
    hy_value,       \* what _call returned
    \* ---- a block that uses a Task handle t ----
    tk_pc,          \* "idle", "loop", "sent" (block ran through), "failed"
    tk_task,        \* t.id
    tk_block,       \* the statements of the block as written
    tk_code,        \* the statements after _AutoAwait
    tk_i,           \* index of the statement to run next
    tk_log,         \* the _call invocations made so far, in order
    tk_marks,       \* tk_marks[k]: Len(tk_log) when statement k began
    \* ---- exit_plan_mode ----
    pl_pc,          \* "idle", "called" (in _call), "asking" (in _ask), "done"
    pl_tool,        \* how the exit_plan_mode tool call ended: "", "ok", "error"
    pl_plan,        \* result["plan_content"]
    pl_asks,        \* the payloads handed to ask_user, in order
    pl_reply,       \* what the user did at the prompt
    pl_frames,      \* the frames handed to send_message, in order
    pl_stdout,      \* the lines printed
    pl_out,         \* what the wrapper returned or raised
    \* ---- _rank_documents and the slice its callers take ----
    rk_pc,          \* "idle" or "ranked"
    rk_docs,        \* the corpus: the text of each document, in corpus order
    rk_query,       \* the query as given
    rk_mode,        \* the mode as given
    rk_regex,       \* the regex argument as given
    rk_limit,       \* the limit as given
    rk_scores,      \* the scores list
    rk_ranked,      \* what _rank_documents returned
    rk_items,       \* ranked[:limit], what the caller returns
    wt_weight,      \* the weight of the one searched field
    wt_factor,      \* the constant the weight is multiplied by
    wt_order,       \* the documents in ranked order under the weight
    wt_scaled,      \* the same under the weight times the constant
    \* ---- turns with tool calls; history search ----
    th_data,        \* the record last given to _add_turn
    th_copy,        \* a history loaded from the serialised one, NoCopy when none was
    hf_pc,          \* "idle" or "found"
    hf_query,       \* the query of history.find
    hf_since,       \* its since_turn argument
    hf_limit,       \* its limit argument
    hf_matches,     \* the HistoryMatch list it returned
    \* ---- two _handle_exec coroutines on one event loop ----
    ov_pc,          \* per handler: "idle", "suspended" (at an await) or "done"
    ov_old,         \* per handler: its locals old_stdout and old_stderr
    ov_buf,         \* per handler: what was written to its stdout_buf
    ov_overlap      \* a handler started while the other was suspended

histVars == <<turns, addCount>>
execVars == <<sys_stdout, sys_stderr, sys_displayhook, fd2, ns, pc, exec_id, block,
              old_stdout, old_stderr, old_displayhook, saved_fd, error, stdout_buf,
              i, pending, reply, sent, ran, raisedAt, ns0, mutes, unmutes,
              bridgeLog, returned, underscore, callOutcome>>
proxyVars == <<proxyCall, dispatched>>
regVars == <<tool_defs, tools_initialized, reg_ns, reg_T, headless, agent_id,
             async_tool_names, async_method_names, reg_bridge>>
rwVars == <<rw_names, rw_tree, rw_out>>
gVars == <<g_n, g_status, g_queue, g_answer, g_order, g_result>>
askVars == <<ask_pc, ask_calls, ask_reply, ask_outcome>>
snapVars == <<user_ns, host_blob, snap_src, snap_frame, snap_op, pre_ns>>
memVars == <<mem_store, mem_turn, mem_stamp, mem_op, mem_pre>>
hyVars == <<hy_pc, hy_name, hy_result, hy_value>>
tkVars == <<tk_pc, tk_task, tk_block, tk_code, tk_i, tk_log, tk_marks>>
planVars == <<pl_pc, pl_tool, pl_plan, pl_asks, pl_reply, pl_frames, pl_stdout, pl_out>>
rankVars == <<rk_pc, rk_docs, rk_query, rk_mode, rk_regex, rk_limit, rk_scores, rk_ranked,
              rk_items,
             wt_weight, wt_factor, wt_order, wt_scaled>>
findVars == <<th_data, th_copy, hf_pc, hf_query, hf_since, hf_limit, hf_matches>>
ovVars == <<ov_pc, ov_old, ov_buf, ov_overlap>>
moreVars == <<tkVars, planVars, rankVars, findVars, ovVars>>
laterVars == <<memVars, hyVars, moreVars>>
extVars == <<rwVars, gVars, askVars, snapVars, laterVars>>
vars == <<histVars, execVars, proxyVars, regVars, extVars>>

\* Python's None.
None == "None"

(***************************************************************************)
(* Bounds of the model.                                                    *)
(***************************************************************************)
\* TurnHistory._MAX_TURNS is 2000 in the source (repl.py:155); the model scales
\* the cap down so that trimming happens within the explored runs.
MAX_TURNS == 3
\* Number of _add_turn calls explored.
MaxAdds == 5
\* Explicit "index" values a turn record may carry: 0..MaxIndex.
MaxIndex == 1

(***************************************************************************)
(* TurnHistory                                                             *)
(***************************************************************************)
UserMessages == {"m1", "m2"}
TurnErrors == {None, "err"}

\* Turn records as the host sends them (the JSON object given to _add_turn),
\* with or without an "index" key.
TurnDataNoIndex == [user_message : UserMessages, error : TurnErrors]
TurnDataWithIndex == [index : 0..MaxIndex, user_message : UserMessages, error : TurnErrors]
TurnData == TurnDataNoIndex \cup TurnDataWithIndex

\* data.get("index", len(self._turns))
TurnIndex(ts, data) ==
    IF "index" \in DOMAIN data THEN data.index ELSE Len(ts)

\* self._turns[-self._MAX_TURNS:] when the cap is exceeded.
TrimDropsNewest(ts) ==
    IF Len(ts) > MAX_TURNS THEN SubSeq(ts, 1, MAX_TURNS) ELSE ts
Trim(ts) ==
    IF Len(ts) > MAX_TURNS THEN SubSeq(ts, Len(ts) - MAX_TURNS + 1, Len(ts)) ELSE ts

\* data.get(key, default)
DataGet(data, key, default) == IF key \in DOMAIN data THEN data[key] ELSE default

\* The values of the ToolName enum; _TOOL_NAME_MAP.get(name, ToolName.OTHER).
ToolNameValues ==
    {"read_file", "write_file", "edit_file", "find_replace", "diff_file", "glob", "grep",
     "ls", "shell", "web_search", "fetch_url", "agent_call", "tasks", "skills", "hashline",
     "other"}
ToolNameOf(name) == IF name \in ToolNameValues THEN name ELSE "other"
READ_TOOLS == {"read_file", "glob", "grep"}
WRITE_TOOLS == {"write_file", "edit_file", "find_replace", "diff_file"}

\* The "args" of a tool-call record: a JSON object, a string (JSON text that
\* json.loads turns into the object, or that it rejects), or a list.
NoArgs == <<>>
ArgsDict(m) == [kind |-> "dict", map |-> m, parses |-> TRUE]
ArgsText(m, ok) == [kind |-> "str", map |-> m, parses |-> ok]
ArgsList == [kind |-> "list", map |-> NoArgs, parses |-> TRUE]

\* The args dict of the ToolCall: the object, the parsed string, else {}.
ToolCallArgs(args) ==
    IF args.kind = "dict" THEN args.map
    ELSE IF args.kind = "str" /\ args.parses THEN args.map
    ELSE NoArgs

\* ToolCall(tool, args, result, success, duration_ms) of one record.
ToolCallOf(tc_data) ==
    [tool |-> ToolNameOf(DataGet(tc_data, "tool", "")),
     args |-> ToolCallArgs(DataGet(tc_data, "args", ArgsDict(NoArgs))),
     result |-> DataGet(tc_data, "result", None),
     success |-> DataGet(tc_data, "success", FALSE),
     duration_ms |-> DataGet(tc_data, "duration_ms", 0)]

\* path = tc.args.get("path"); if path: ...
PathOf(tc) == DataGet(tc.args, "path", None)
Truthy(path) == path \notin {None, ""}

\* files_read and files_written: the paths of the calls whose tool is in the
\* given set, in call order.
FilesOfAnyTool(tcs, tools) ==
    LET hits == SelectSeq(tcs, LAMBDA tc : Truthy(PathOf(tc)))
    IN  [k \in DOMAIN hits |-> PathOf(hits[k])]
FilesOf(tcs, tools) ==
    LET hits == SelectSeq(tcs, LAMBDA tc : Truthy(PathOf(tc)) /\ tc.tool \in tools)
    IN  [k \in DOMAIN hits |-> PathOf(hits[k])]

\* TurnHistory._add_turn: build the Turn, append it, trim to the cap.
\* "call" numbers the call; it is not a field of the source's Turn.
TurnHistory_add_turn(ts, data, call) ==
    LET raw == DataGet(data, "tool_calls", <<>>)
        tcs == [k \in DOMAIN raw |-> ToolCallOf(raw[k])]
    IN  Trim(Append(ts, [index |-> TurnIndex(ts, data),
                         user_message |-> DataGet(data, "user_message", ""),
                         prose |-> DataGet(data, "prose", ""),
                         code |-> DataGet(data, "code", ""),
                         output |-> DataGet(data, "output", ""),
                         error |-> DataGet(data, "error", None),
                         tool_calls |-> tcs,
                         files_read |-> FilesOf(tcs, READ_TOOLS),
                         files_written |-> FilesOf(tcs, WRITE_TOOLS),
                         call |-> call]))

AddTurn(data) ==
    /\ addCount < MaxAdds
    /\ turns' = TurnHistory_add_turn(turns, data, addCount + 1)
    /\ addCount' = addCount + 1

AddTurnAny ==
    /\ \E data \in TurnData : AddTurn(data)
    /\ UNCHANGED <<execVars, proxyVars, regVars, extVars>>

AddTurnDefaultIndex ==
    /\ \E data \in TurnDataNoIndex : AddTurn(data)
    /\ UNCHANGED <<execVars, proxyVars, regVars, extVars>>

(***************************************************************************)
(* Blocks, statements and the bridge                                       *)
(***************************************************************************)
\* Largest number of top-level statements in a block.
MaxStmts == 2

ExecIds == {"e1", "e2"}
ToolNames == {"read_file", "shell"}

\* A top-level statement, by what it does when it is compiled and run:
\*   assign     binds a name in the namespace            (x = 1)
\*   print      writes to sys.stdout                     (print('a'))
\*   raise      raises an Exception subclass             (raise ValueError('x'))
\*   exit       raises a BaseException that is no Exception (raise SystemExit)
\*   nocompile  parses, but compile() raises SyntaxError (return 3)
\*   tool       r = await <tool>(...): one _call, then binds the result
\*   expr       an expression statement with a value     (1 + 2)
\*   done       the expression statement done(v)
PlainStmts ==
    [kind : {"assign", "print", "raise", "exit", "nocompile", "expr", "done"}, tool : {""}]
ToolStmts == [kind : {"tool"}, tool : ToolNames]
Stmts == PlainStmts \cup ToolStmts

StmtSeqs(lo) == UNION {[1..n -> Stmts] : n \in lo..MaxStmts}

EmptyBlock == [parse |-> "ok", rewrite |-> "ok", stmts |-> <<>>]

\* The code argument of an exec command.  "parse" is what ast.parse does with
\* it (returns a tree, raises SyntaxError, or raises another exception such as
\* RecursionError: "maximum recursion depth exceeded during ast construction");
\* "rewrite" is what _AutoAwait(...).visit does with the tree (NodeTransformer
\* recursion raises RecursionError on a deep tree that ast.parse accepted).
\* A block whose rewrite fails is one deep assignment (x = 1+1+...+1).
Blocks ==
    [parse : {"ok"}, rewrite : {"ok"}, stmts : StmtSeqs(0)]
    \cup [parse : {"ok"}, rewrite : {"RecursionError"},
          stmts : {<<[kind |-> "assign", tool |-> ""]>>}]
    \cup [parse : {"SyntaxError", "RecursionError"}, rewrite : {"ok"}, stmts : {<<>>}]

\* Exceptions and the formatted traceback stored in the error local.
Exc(type) == [type |-> type, name |-> "", error |-> ""]
NoError == [text |-> None, type |-> "", name |-> "", error |-> ""]
\* traceback.format_exc() for the exception being handled
FormatExc(exc) == [text |-> "Traceback", type |-> exc.type, name |-> exc.name, error |-> exc.error]

\* class ToolError(Exception): name, error, and __bool__ returning False
ToolError(name, err) == [type |-> "ToolError", name |-> name, error |-> err, bool |-> FALSE]

\* JSON texts of the payloads the host puts in an envelope's "result".
JsonLoads(text) ==
    CASE text = "\"boom\"" -> "boom"
      [] text = "\"val\"" -> "val"
      [] OTHER -> "JSONDecodeError"

\* The envelope invoke_tool returns (json.loads(result_json)): success and a
\* result that is null, empty or a JSON text.
Envelopes ==
    [success : {TRUE}, result : {None, "\"val\""}]
    \cup [success : {FALSE}, result : {None, "", "\"boom\""}]

\* if result["result"]: null and the empty string are falsy.
Falsy(text) == text \in {None, ""}

NoCall == [name |-> "", args |-> ""]
NoReply == [success |-> TRUE, result |-> "no reply"]
NoOutcome == [kind |-> "none"]

\* The tail of _call, after the bridge has answered: decode the envelope, return
\* the value on success, raise ToolError(name, error) on failure.
CallReturnsError(name, env) ==
    IF env.success
    THEN [kind |-> "return", value |-> IF Falsy(env.result) THEN None ELSE JsonLoads(env.result)]
    ELSE [kind |-> "return", value |-> "ToolError"]
CallOutcome(name, env) ==
    IF env.success
    THEN [kind |-> "return", value |-> IF Falsy(env.result) THEN None ELSE JsonLoads(env.result)]
    ELSE [kind |-> "raise",
          exc |-> ToolError(name, IF Falsy(env.result) THEN "Tool call failed"
                                  ELSE JsonLoads(env.result))]

\* A buffer installed by a handler that is gone is no longer "this handler's".
Stale(stream) == IF stream = "cur" THEN "stale" ELSE stream

ExecResult(id, output, err) ==
    [type |-> "exec_result", id |-> id, output |-> output, response |-> "", error |-> err]

(***************************************************************************)
(* _handle_exec                                                            *)
(***************************************************************************)
\* _mute_stderr: saved = os.dup(2); os.dup2(_devnull_fd, 2); return saved
MuteStderr ==
    /\ saved_fd' = fd2
    /\ fd2' = "devnull"
    /\ mutes' = mutes + 1
    /\ UNCHANGED unmutes

\* _unmute_stderr(saved): os.dup2(saved, 2); os.close(saved); the caller then
\* drops its reference (_saved_fd = None, or the handler returns).
UnmuteStderr ==
    /\ fd2' = saved_fd
    /\ saved_fd' = None
    /\ unmutes' = unmutes + 1
    /\ UNCHANGED mutes

HandlerEnded == pc \in {"returned", "escaped"}

\* The host sends an exec command; the handler runs up to ast.parse:
\* the capture buffer and the display hook are installed and fd 2 is muted.
ExecStart(id, blk) ==
    /\ pc = "idle"
    /\ exec_id' = id
    /\ block' = blk
    /\ stdout_buf' = <<>>
    /\ old_stdout' = sys_stdout
    /\ old_stderr' = sys_stderr
    /\ old_displayhook' = sys_displayhook
    /\ sys_stdout' = "cur"
    /\ sys_stderr' = "cur"
    /\ sys_displayhook' = "_displayhook"
    /\ error' = NoError
    /\ saved_fd' = fd2
    /\ fd2' = "devnull"
    /\ mutes' = 1
    /\ unmutes' = 0
    /\ ns0' = ns
    /\ pc' = "parse"
    /\ UNCHANGED <<ns, i, pending, reply, sent, ran, raisedAt, bridgeLog, returned,
                   underscore, callOutcome>>

\* The handler's frame is gone (it returned, or an exception left it) and the
\* host may send the next command.  The module state stays as the handler
\* left it; a buffer the handler left installed is from now on a stale one.
TurnEnds ==
    /\ HandlerEnded
    /\ pc' = "idle"
    /\ sys_stdout' = Stale(sys_stdout)
    /\ sys_stderr' = Stale(sys_stderr)
    /\ exec_id' = "e1"
    /\ block' = EmptyBlock
    /\ old_stdout' = "orig"
    /\ old_stderr' = "orig"
    /\ old_displayhook' = "orig"
    /\ saved_fd' = None
    /\ error' = NoError
    /\ stdout_buf' = <<>>
    /\ i' = 0
    /\ pending' = NoCall
    /\ reply' = NoReply
    /\ sent' = <<>>
    /\ ran' = {}
    /\ raisedAt' = 0
    /\ ns0' = {}
    /\ mutes' = 0
    /\ unmutes' = 0
    /\ bridgeLog' = <<>>
    /\ returned' = {}
    /\ underscore' = 0
    /\ callOutcome' = NoOutcome
    /\ UNCHANGED <<sys_displayhook, fd2, ns>>
    /\ UNCHANGED <<histVars, proxyVars, regVars, extVars>>

\* try: tree = ast.parse(code) / except SyntaxError: error = ...; tree = None.
\* Any other exception of ast.parse leaves the handler.
Parse ==
    /\ pc = "parse"
    /\ \/ /\ block.parse = "ok"
          /\ pc' = "rewrite"
          /\ UNCHANGED error
       \/ /\ block.parse = "SyntaxError"
          /\ error' = FormatExc(Exc("SyntaxError"))
          /\ pc' = "finish"
       \/ /\ block.parse \notin {"ok", "SyntaxError"}
          /\ pc' = "escaped"
          /\ UNCHANGED error
    /\ UNCHANGED <<sys_stdout, sys_stderr, sys_displayhook, fd2, ns, exec_id, block,
                   old_stdout, old_stderr, old_displayhook, saved_fd, stdout_buf, i,
                   pending, reply, sent, ran, raisedAt, ns0, mutes, unmutes,
                   bridgeLog, returned, callOutcome>>
    /\ UNCHANGED underscore
    /\ UNCHANGED <<histVars, proxyVars, regVars, extVars>>

\* if tree and _async_tool_names: tree = _AutoAwait(...).visit(tree); the call
\* is outside every try, so an exception of the visit leaves the handler.
\* (_async_tool_names is never empty once _register_tools has run.)
Rewrite ==
    /\ pc = "rewrite"
    /\ \/ /\ block.rewrite = "ok"
          /\ pc' = "loop"
          /\ i' = 1
       \/ /\ block.rewrite # "ok"
          /\ pc' = "escaped"
          /\ UNCHANGED i
    /\ UNCHANGED <<sys_stdout, sys_stderr, sys_displayhook, fd2, ns, exec_id, block,
                   old_stdout, old_stderr, old_displayhook, saved_fd, error, stdout_buf,
                   pending, reply, sent, ran, raisedAt, ns0, mutes, unmutes,
                   bridgeLog, returned, callOutcome>>
    /\ UNCHANGED underscore
    /\ UNCHANGED <<histVars, proxyVars, regVars, extVars>>

\* for node in tree.body: compile(mod, "<repl>", "single", ...); on success
\* _unmute_stderr(_saved_fd); _saved_fd = None.  A compile error is caught by
\* "except Exception" with fd 2 still muted.
Compile ==
    /\ pc = "loop"
    /\ i <= Len(block.stmts)
    /\ \/ /\ block.stmts[i].kind = "nocompile"
          /\ error' = FormatExc(Exc("SyntaxError"))
          /\ pc' = "finish"
          /\ UNCHANGED <<fd2, saved_fd, mutes, unmutes>>
       \/ /\ block.stmts[i].kind # "nocompile"
          /\ UnmuteStderr
          /\ pc' = "run"
          /\ UNCHANGED error
    /\ UNCHANGED <<sys_stdout, sys_stderr, sys_displayhook, ns, exec_id, block,
                   old_stdout, old_stderr, old_displayhook, stdout_buf, i,
                   pending, reply, sent, ran, raisedAt, ns0, bridgeLog, returned, callOutcome>>
    /\ UNCHANGED underscore
    /\ UNCHANGED <<histVars, proxyVars, regVars, extVars>>

\* The loop is exhausted.
LoopExit ==
    /\ pc = "loop"
    /\ i > Len(block.stmts)
    /\ pc' = "finish"
    /\ UNCHANGED <<sys_stdout, sys_stderr, sys_displayhook, fd2, ns, exec_id, block,
                   old_stdout, old_stderr, old_displayhook, saved_fd, error, stdout_buf,
                   i, pending, reply, sent, ran, raisedAt, ns0, mutes, unmutes,
                   bridgeLog, returned, callOutcome>>
    /\ UNCHANGED underscore
    /\ UNCHANGED <<histVars, proxyVars, regVars, extVars>>

\* The statement completed: _saved_fd = _mute_stderr(), next node.
StmtDone ==
    /\ MuteStderr
    /\ i' = i + 1
    /\ pc' = "loop"

\* except Exception: error = traceback.format_exc(); break
StmtCaught(exc) ==
    /\ error' = FormatExc(exc)
    /\ raisedAt' = i
    /\ pc' = "finish"

\* exec(co, _ns) of a statement that makes no tool call.
RunPlain ==
    /\ pc = "run"
    /\ block.stmts[i].kind \in {"assign", "print", "raise", "exit"}
    /\ ran' = ran \cup {i}
    /\ \/ /\ block.stmts[i].kind = "assign"
          /\ ns' = ns \cup {i}
          /\ StmtDone
          /\ UNCHANGED <<stdout_buf, error, raisedAt>>
       \/ /\ block.stmts[i].kind = "print"
          /\ stdout_buf' = Append(stdout_buf, i)
          /\ StmtDone
          /\ UNCHANGED <<ns, error, raisedAt>>
       \/ /\ block.stmts[i].kind = "raise"
          /\ StmtCaught(Exc("ValueError"))
          /\ UNCHANGED <<ns, stdout_buf, i, fd2, saved_fd, mutes, unmutes>>
       \/ /\ block.stmts[i].kind = "exit"
          \* SystemExit is no Exception: "except Exception" does not catch it
          /\ raisedAt' = i
          /\ pc' = "escaped"
          /\ UNCHANGED <<ns, stdout_buf, error, i, fd2, saved_fd, mutes, unmutes>>
    /\ UNCHANGED <<sys_stdout, sys_stderr, sys_displayhook, exec_id, block,
                   old_stdout, old_stderr, old_displayhook, pending, reply, sent,
                   ns0, bridgeLog, returned, callOutcome>>
    /\ UNCHANGED underscore
    /\ UNCHANGED <<histVars, proxyVars, regVars, extVars>>

\* Values handed to done and to the display hook: the integer 3 and the empty
\* string (the default argument of done).
IntValue == [py |-> "int", text |-> "3"]
EmptyStr == [py |-> "str", text |-> ""]
DoneValues == {IntValue, EmptyStr}
Awaitable == [py |-> "_Awaitable", text |-> ""]

\* _format_value: a string stripped (the empty string stays empty), another
\* value's repr; None if the text is empty.
FormatValue(value) == IF value.text = "" THEN None ELSE value.text

\* _done: one message frame of kind "final"; returns _Awaitable().
FinalMessage(value) ==
    [type |-> "message",
     text |-> IF FormatValue(value) = None THEN "" ELSE FormatValue(value),
     kind |-> "final"]

\* _displayhook: None and _Awaitable sentinels are skipped; another value is
\* put in builtins._ and its repr printed.
DisplayhookShowsAwaitable(value) == TRUE
DisplayhookShows(value) == value.py \notin {"None", "_Awaitable"}

\* exec(co, _ns) of an expression statement: "single" mode hands the value of
\* the expression to sys.displayhook.
RunExpr ==
    /\ pc = "run"
    /\ block.stmts[i].kind \in {"expr", "done"}
    /\ ran' = ran \cup {i}
    /\ \E value \in DoneValues :
          LET shown == IF block.stmts[i].kind = "done" THEN Awaitable ELSE value
          IN /\ sent' = IF block.stmts[i].kind = "done"
                        THEN Append(sent, FinalMessage(value))
                        ELSE sent
             /\ IF DisplayhookShows(shown)
                THEN /\ underscore' = i
                     /\ stdout_buf' = Append(stdout_buf, i)
                ELSE UNCHANGED <<underscore, stdout_buf>>
    /\ StmtDone
    /\ UNCHANGED <<sys_stdout, sys_stderr, sys_displayhook, ns, exec_id, block,
                   old_stdout, old_stderr, old_displayhook, error, pending, reply,
                   raisedAt, ns0, bridgeLog, returned, callOutcome>>
    /\ UNCHANGED <<histVars, proxyVars, regVars, extVars>>

\* A statement that starts its tool call and goes on without awaiting it.
RunToolNoWait ==
    /\ pc = "run"
    /\ block.stmts[i].kind = "tool"
    /\ ran' = ran \cup {i}
    /\ bridgeLog' = Append(bridgeLog, block.stmts[i].tool)
    /\ StmtDone
    /\ UNCHANGED <<sys_stdout, sys_stderr, sys_displayhook, ns, exec_id, block,
                   old_stdout, old_stderr, old_displayhook, error, stdout_buf,
                   pending, reply, sent, raisedAt, ns0, returned, callOutcome>>
    /\ UNCHANGED underscore
    /\ UNCHANGED <<histVars, proxyVars, regVars, extVars>>

\* await types.FunctionType(co, _ns)() of a statement that awaits a tool:
\* _call hands invoke_tool to the executor and the handler is suspended.
RunTool ==
    /\ pc = "run"
    /\ block.stmts[i].kind = "tool"
    /\ ran' = ran \cup {i}
    /\ pending' = [name |-> block.stmts[i].tool, args |-> "{}"]
    /\ bridgeLog' = Append(bridgeLog, block.stmts[i].tool)
    /\ reply' = NoReply
    /\ pc' = "await"
    /\ UNCHANGED <<sys_stdout, sys_stderr, sys_displayhook, fd2, ns, exec_id, block,
                   old_stdout, old_stderr, old_displayhook, saved_fd, error, stdout_buf,
                   i, sent, raisedAt, ns0, mutes, unmutes, returned, callOutcome>>
    /\ UNCHANGED underscore
    /\ UNCHANGED <<histVars, proxyVars, regVars, extVars>>

\* The host answers the bridge call with an envelope.
HostReply ==
    /\ pc = "await"
    /\ \E env \in Envelopes : reply' = env
    /\ pc' = "resume"
    /\ UNCHANGED <<sys_stdout, sys_stderr, sys_displayhook, fd2, ns, exec_id, block,
                   old_stdout, old_stderr, old_displayhook, saved_fd, error, stdout_buf,
                   i, pending, sent, ran, raisedAt, ns0, mutes, unmutes, bridgeLog, returned,
                   callOutcome>>
    /\ UNCHANGED underscore
    /\ UNCHANGED <<histVars, proxyVars, regVars, extVars>>

\* _call resumes with result_json: it returns a value, which the statement
\* binds, or raises, which the statement does not catch.
Resume ==
    /\ pc = "resume"
    /\ callOutcome' = CallOutcome(pending.name, reply)
    /\ returned' = returned \cup {i}
    /\ \/ /\ callOutcome'.kind = "return"
          /\ ns' = ns \cup {i}
          /\ StmtDone
          /\ UNCHANGED <<error, raisedAt>>
       \/ /\ callOutcome'.kind = "raise"
          /\ StmtCaught(callOutcome'.exc)
          /\ UNCHANGED <<ns, i, fd2, saved_fd, mutes, unmutes>>
    /\ UNCHANGED <<sys_stdout, sys_stderr, sys_displayhook, exec_id, block,
                   old_stdout, old_stderr, old_displayhook, stdout_buf, pending, reply,
                   sent, ran, ns0, bridgeLog>>
    /\ UNCHANGED underscore
    /\ UNCHANGED <<histVars, proxyVars, regVars, extVars>>

\* After the loop: if _saved_fd is not None: _unmute_stderr(_saved_fd); restore
\* sys.stdout, sys.stderr and sys.displayhook; send the exec_result.
Finish ==
    /\ pc = "finish"
    /\ IF saved_fd # None THEN UnmuteStderr ELSE UNCHANGED <<fd2, saved_fd, mutes, unmutes>>
    /\ sys_stdout' = old_stdout
    /\ sys_stderr' = old_stderr
    /\ sys_displayhook' = old_displayhook
    /\ sent' = Append(sent, ExecResult(exec_id, stdout_buf, error))
    /\ pc' = "returned"
    /\ UNCHANGED <<ns, exec_id, block, old_stdout, old_stderr, old_displayhook, error,
                   stdout_buf, i, pending, reply, ran, raisedAt, ns0, bridgeLog, returned,
                   callOutcome>>
    /\ UNCHANGED underscore
    /\ UNCHANGED <<histVars, proxyVars, regVars, extVars>>

(***************************************************************************)
(* The tool proxy built by _register_tools.make_fn                         *)
(***************************************************************************)
\* Largest number of positional arguments of a proxy invocation.
MaxArgs == 2

Keys == {"path", "limit"}
Scalars == {"a", "b"}

\* Mappings (Python dicts) with keys among Keys.
MapsTo(values) == UNION {[d -> values] : d \in SUBSET Keys}
EmptyMap == [k \in {} |-> ""]

\* m1.update(m2)
Update(m1, m2) ==
    [k \in DOMAIN m1 \cup DOMAIN m2 |-> IF k \in DOMAIN m2 THEN m2[k] ELSE m1[k]]

\* An argument value: a scalar, or a dict of scalars.
Scalar(v) == [dict |-> FALSE, val |-> v, map |-> EmptyMap]
Dict(m) == [dict |-> TRUE, val |-> "", map |-> m]
Values == {Scalar(v) : v \in Scalars} \cup {Dict(m) : m \in MapsTo(Scalars)}

\* The entries of a dict, as argument values.
Entries(m) == [k \in DOMAIN m |-> Scalar(m[k])]

\* The tools whose proxies are invoked: name and declared parameter names.
ProxyTools ==
    { [name |-> "read_file", pnames |-> <<"path", "limit">>],
      [name |-> "glob", pnames |-> <<"path">>] }

ArgSeqs == UNION {[1..n -> Values] : n \in 0..MaxArgs}
KwMaps == {Entries(m) : m \in MapsTo(Scalars)}

\* for i, arg in enumerate(args): a dict is merged, another value is bound to
\* pnames[i] when there is such a parameter.  k is 1-based.
RECURSIVE PositionalLoop(_, _, _, _)
PositionalLoop(pnames, args, k, params) ==
    IF k > Len(args) THEN params
    ELSE PositionalLoop(pnames, args, k + 1,
            IF args[k].dict THEN Update(params, Entries(args[k].map))
            ELSE IF k <= Len(pnames) THEN Update(params, [n \in {pnames[k]} |-> args[k]])
            ELSE params)

\* The params dict fn hands to _call: the positional loop, then params.update(kw).
ProxyParamsPositionalWins(pnames, args, kw) ==
    Update(kw, PositionalLoop(pnames, args, 1, EmptyMap))
ProxyParams(pnames, args, kw) ==
    Update(PositionalLoop(pnames, args, 1, EmptyMap), kw)

NoInvocation == [tool |-> "", pnames |-> <<>>, args |-> <<>>, kw |-> EmptyMap]
NoDispatch == [name |-> "", params |-> EmptyMap]

\* The script calls a proxy: the generated fn reaches _call(n, params).
ProxyInvoke ==
    /\ proxyCall = NoInvocation
    /\ \E t \in ProxyTools, args \in ArgSeqs, kw \in KwMaps :
          /\ proxyCall' = [tool |-> t.name, pnames |-> t.pnames, args |-> args, kw |-> kw]
          /\ dispatched' = [name |-> t.name, params |-> ProxyParams(t.pnames, args, kw)]
    /\ UNCHANGED <<histVars, execVars, regVars, extVars>>

\* The call returns; the next invocation starts afresh.
ProxyReturn ==
    /\ proxyCall # NoInvocation
    /\ proxyCall' = NoInvocation
    /\ dispatched' = NoDispatch
    /\ UNCHANGED <<histVars, execVars, regVars, extVars>>

(***************************************************************************)
(* _register_tools and _reset_repl                                         *)
(***************************************************************************)
\* Names a tool definition of the session may carry.  exit_plan_mode is a host
\* tool (_exit_plan_mode dispatches _call("exit_plan_mode", {})) whose name is
\* also one of the fixed bindings.
RegNames == {"read_file", "agent_call", "exit_plan_mode"}
AgentIds == {"agent-1", "agent-2"}

\* The tool definitions of a session: distinct names, each hidden or not and
\* inject_into_prompt or not.
ToolDefLists == UNION {[d -> [hidden : BOOLEAN, inject : BOOLEAN]] : d \in SUBSET RegNames}

\* The bindings dict of _register_tools; "ask" only when not headless.
Bindings(hl) ==
    {"json", "print", "done", "asyncio", "list_tools", "find_tools", "find_history",
     "find_mem", "reset_repl", "enter_plan_mode", "exit_plan_mode", "Task", "Skill",
     "SkillSummary", "ToolError", "TurnHistory", "Turn", "ToolCall", "ToolName",
     "Intelligence", "Mem", "MemEntry", "ToolInfo", "HistoryMatch", "MemMatch", "T"}
    \cup (IF hl THEN {} ELSE {"ask"})

\* Names bound on T: every non-hidden definition (agent_call through its wrapper).
BoundOnTIgnoringHidden(defs) == DOMAIN defs
BoundOnT(defs) == {n \in DOMAIN defs : ~defs[n].hidden}

\* Names bound in _ns to a generated proxy (or the agent_call wrapper) before
\* _ns.update(bindings).
InjectedProxiesAllVisible(defs) == {n \in DOMAIN defs : ~defs[n].hidden}
InjectedProxies(defs) == {n \in DOMAIN defs : ~defs[n].hidden /\ defs[n].inject}

\* A name user code binds; it is no tool name and no fixed binding.
UserNames == {"x"}

\* _ns when _register_tools returns: name -> kind of object.  The fixed
\* bindings are written last and replace a proxy of the same name.
RegisteredNs(defs, hl) ==
    [n \in InjectedProxies(defs) \cup Bindings(hl) \cup {"__agent_id__", "_history", "_mem"} |->
        IF n \in Bindings(hl) THEN "builtin"
        ELSE IF n \in {"__agent_id__", "_history", "_mem"} THEN "session"
        ELSE IF n = "agent_call" THEN "agent_call_wrapper"
        ELSE "proxy"]

\* The fixed handle-method names _async_method_names starts with.
HandleMethods ==
    {"claim", "start", "done", "cancel", "delete", "block", "wait_on", "update",
     "result", "write", "output", "kill", "load", "read_file"}

\* The body of _register_tools once the _tools_initialized guard has passed.
DoRegister(defs, aid, hl) ==
    /\ tools_initialized' = TRUE
    /\ headless' = hl
    /\ agent_id' = aid
    /\ tool_defs' = defs
    /\ reg_T' = BoundOnT(defs)
    /\ reg_ns' = RegisteredNs(defs, hl)
    /\ async_tool_names' = async_tool_names \cup InjectedProxies(defs)
                             \cup (IF hl THEN {} ELSE {"ask"})
                             \cup {"enter_plan_mode", "exit_plan_mode"}
    /\ async_method_names' = async_method_names \cup BoundOnT(defs)

\* The init command: _register_tools(tools_json, agent_id, headless).
RegisterTools ==
    /\ ~tools_initialized
    /\ \E defs \in ToolDefLists, aid \in AgentIds, hl \in BOOLEAN : DoRegister(defs, aid, hl)
    /\ UNCHANGED reg_bridge
    /\ UNCHANGED <<histVars, execVars, proxyVars, extVars>>

\* _reset_repl: _ns.clear(), then _register_tools with the saved definitions,
\* agent id and headless flag.
\* saved_agent_id = _ns.get("__agent_id__", "")
SavedAgentId ==
    IF "__agent_id__" \in DOMAIN user_ns THEN user_ns["__agent_id__"].val
    ELSE IF "__agent_id__" \in DOMAIN reg_ns THEN agent_id
    ELSE ""

\* _ns["_history"] = TurnHistory() in _register_tools, after _ns.clear():
\* the turns of the history the namespace holds from then on.
KeptHistory(ts) == ts
FreshHistory(ts) == <<>>

ResetKeepsNamespace ==
    /\ tools_initialized
    /\ DoRegister(tool_defs, SavedAgentId, headless)
    /\ user_ns' = user_ns
    /\ turns' = FreshHistory(turns)
    /\ mem_store' = EmptyMap
    /\ mem_turn' = 0
    /\ UNCHANGED reg_bridge
\* The namespace is cleared and registered again: the user names are gone,
\* _history is a new TurnHistory and _mem a new Mem.
ResetBody ==
    /\ tools_initialized
    /\ DoRegister(tool_defs, SavedAgentId, headless)
    /\ user_ns' = EmptyMap
    /\ turns' = FreshHistory(turns)
    /\ mem_store' = EmptyMap
    /\ mem_turn' = 0
    /\ UNCHANGED reg_bridge

\* reset_repl() called by a script.
ResetRepl ==
    /\ ResetBody
    /\ UNCHANGED <<host_blob, snap_src, snap_frame, snap_op, pre_ns>>
    /\ UNCHANGED <<addCount, mem_stamp, mem_op, mem_pre, hyVars, moreVars>>
    /\ UNCHANGED <<execVars, proxyVars, rwVars, gVars, askVars>>

\* A statement of a block binds a user name.
UserAssign ==
    /\ tools_initialized
    /\ \E n \in UserNames : reg_ns' = Update(reg_ns, [m \in {n} |-> "user"])
    /\ UNCHANGED <<tool_defs, tools_initialized, reg_T, headless, agent_id,
                   async_tool_names, async_method_names, reg_bridge>>
    /\ UNCHANGED <<histVars, execVars, proxyVars, extVars>>

\* _call(name, params) up to the bridge: the name is handed to invoke_tool as
\* it is; the tool definitions are not consulted.
DispatchReaches(defs, name) == TRUE

Dispatch ==
    /\ tools_initialized
    /\ \E name \in RegNames :
          reg_bridge' = reg_bridge \cup
                          {[name |-> name, reached |-> DispatchReaches(tool_defs, name)]}
    /\ UNCHANGED <<tool_defs, tools_initialized, reg_ns, reg_T, headless, agent_id,
                   async_tool_names, async_method_names>>
    /\ UNCHANGED <<histVars, execVars, proxyVars, extVars>>

(***************************************************************************)
(* _AutoAwait: the auto-await rewriter                                     *)
(***************************************************************************)
\* Largest nesting depth of the expressions handed to the rewriter.
MaxDepth == 3

\* The callee of a call: a bare name (ast.Name), an attribute (ast.Attribute
\* on a name: h.result, asyncio.gather), or another expression (fns[0]).
NoCallee == [form |-> "", recv |-> "", id |-> ""]
Callees ==
    [form : {"name"}, recv : {""}, id : {"read_file", "len"}]
    \cup [form : {"attr"}, recv : {"h"}, id : {"result", "upper"}]
    \cup [form : {"attr"}, recv : {"asyncio"}, id : {"gather", "sleep"}]
    \cup [form : {"other"}, recv : {""}, id : {""}]

\* Expression nodes: a leaf (no call inside), ast.Await, ast.Call.  kids are
\* the child expressions generic_visit descends into (the operand of an await,
\* the arguments of a call).
Leaf == [kind |-> "leaf", callee |-> NoCallee, kids |-> <<>>]
AwaitNode(e) == [kind |-> "await", callee |-> NoCallee, kids |-> <<e>>]
CallNode(c, es) == [kind |-> "call", callee |-> c, kids |-> es]

\* Calls without arguments, and the leaf.
Atoms == {Leaf} \cup {CallNode(c, <<>>) : c \in Callees}

\* Expressions nested at most d deep; a call has no argument, one argument of
\* any shape, or two arguments that are atoms.
RECURSIVE Exprs(_)
Exprs(d) ==
    IF d <= 0 THEN {Leaf}
    ELSE {Leaf}
         \cup {AwaitNode(e) : e \in Exprs(d - 1)}
         \cup {CallNode(c, <<>>) : c \in Callees}
         \cup {CallNode(x[1], <<x[2]>>) : x \in Callees \X Exprs(d - 1)}
         \cup (IF d < 2 THEN {}
               ELSE {CallNode(x[1], <<x[2], x[3]>>) : x \in Callees \X Atoms \X Atoms})

\* _async_tool_names when _handle_exec builds the rewriter: the plan-mode
\* wrappers, and read_file when it is registered with inject_into_prompt.
RwNameSets ==
    { {"enter_plan_mode", "exit_plan_mode"},
      {"enter_plan_mode", "exit_plan_mode", "read_file"} }

\* _AutoAwait._is_async_passthrough
NeverPassthrough(node) == FALSE
IsAsyncPassthrough(node) ==
    /\ node.kind = "call"
    /\ node.callee.form = "attr"
    /\ node.callee.recv = "asyncio"
    /\ node.callee.id \in {"gather", "create_task", "ensure_future", "wait"}

\* _AutoAwait._should_auto_await; the attribute set is _async_method_names.
ShouldAutoAwait(names, node) ==
    IF node.callee.form = "name" THEN node.callee.id \in names
    ELSE IF node.callee.form = "attr" THEN node.callee.id \in async_method_names
    ELSE FALSE

\* _AutoAwait.visit: visit_Await, visit_Call and generic_visit.  The two flags
\* are the instance fields _inside_await and _suppress, which each visitor
\* sets for its subtree and puts back afterwards.
RECURSIVE AutoAwait_visit(_, _, _, _)
AutoAwait_visit(names, node, inside_await, suppress) ==
    IF node.kind = "await"
    THEN [node EXCEPT !.kids =
            [k \in DOMAIN node.kids |-> AutoAwait_visit(names, node.kids[k], TRUE, suppress)]]
    ELSE IF node.kind = "call"
    THEN IF IsAsyncPassthrough(node)
         THEN [node EXCEPT !.kids =
                 [k \in DOMAIN node.kids |->
                     AutoAwait_visit(names, node.kids[k], inside_await, TRUE)]]
         ELSE LET visited == [node EXCEPT !.kids =
                                [k \in DOMAIN node.kids |->
                                    AutoAwait_visit(names, node.kids[k], inside_await, suppress)]]
              IN IF ~inside_await /\ ~suppress /\ ShouldAutoAwait(names, node)
                 THEN AwaitNode(visited)
                 ELSE visited
    ELSE node

\* tree = _AutoAwait(_async_tool_names).visit(tree)
RewriteTree ==
    /\ rw_names = {}
    /\ \E names \in RwNameSets, tree \in Exprs(MaxDepth) :
          /\ rw_names' = names
          /\ rw_tree' = tree
          /\ rw_out' = AutoAwait_visit(names, tree, FALSE, FALSE)
    /\ UNCHANGED <<histVars, execVars, proxyVars, regVars, gVars, askVars, snapVars, laterVars>>

\* A block: the ast.Module whose body are the top-level statements.
ModuleNode(stmts) == [kind |-> "module", callee |-> NoCallee, kids |-> stmts]

\* The tool call, an ordinary call and a passthrough call of the blocks below.
ToolCallee == [form |-> "name", recv |-> "", id |-> "read_file"]
LenCallee == [form |-> "name", recv |-> "", id |-> "len"]
GatherCallee == [form |-> "attr", recv |-> "asyncio", id |-> "gather"]

\* Statements nested at most d deep: awaits, passthrough calls and ordinary
\* calls around tool calls, an ordinary call having one argument of any
\* shape, or such an argument followed by a tool call.
RECURSIVE ScopeExprs(_)
ScopeExprs(d) ==
    IF d <= 0 THEN {Leaf, CallNode(ToolCallee, <<>>)}
    ELSE ScopeExprs(d - 1)
         \cup {AwaitNode(e) : e \in ScopeExprs(d - 1)}
         \cup {CallNode(GatherCallee, <<e>>) : e \in ScopeExprs(d - 1)}
         \cup {CallNode(LenCallee, <<e>>) : e \in ScopeExprs(d - 1)}
         \cup {CallNode(LenCallee, <<e, CallNode(ToolCallee, <<>>)>>) : e \in ScopeExprs(d - 1)}
ScopeBlocks == UNION {[1..n -> ScopeExprs(MaxDepth - 1)] : n \in 1..2}

\* The fields _inside_await and _suppress of one _AutoAwait object.
NewFlags == [inside_await |-> FALSE, suppress |-> FALSE]

\* self._inside_await = old, self._suppress = old
KeepFlag(flags, field, old) == flags
RestoreFlag(flags, field, old) == [flags EXCEPT ![field] = old]

\* NodeTransformer on one object: visit and generic_visit hand the fields of
\* the object from each child to the next.  The result is the new node and
\* the fields after the visit.
RECURSIVE AutoAwait_walk(_, _, _)
RECURSIVE AutoAwait_generic_visit(_, _, _, _)
AutoAwait_generic_visit(names, node, k, flags) ==
    IF k > Len(node.kids) THEN [node |-> node, flags |-> flags]
    ELSE LET kid == AutoAwait_walk(names, node.kids[k], flags)
         IN  AutoAwait_generic_visit(names, [node EXCEPT !.kids[k] = kid.node], k + 1, kid.flags)
AutoAwait_walk(names, node, flags) ==
    IF node.kind = "await"
    THEN LET old == flags.inside_await
             done == AutoAwait_generic_visit(names, node, 1, [flags EXCEPT !.inside_await = TRUE])
         IN  [node |-> done.node, flags |-> RestoreFlag(done.flags, "inside_await", old)]
    ELSE IF node.kind = "call"
    THEN IF IsAsyncPassthrough(node)
         THEN LET old == flags.suppress
                  done == AutoAwait_generic_visit(names, node, 1, [flags EXCEPT !.suppress = TRUE])
              IN  [node |-> done.node, flags |-> RestoreFlag(done.flags, "suppress", old)]
         ELSE LET done == AutoAwait_generic_visit(names, node, 1, flags)
              IN  IF ~done.flags.inside_await /\ ~done.flags.suppress
                     /\ ShouldAutoAwait(names, done.node)
                  THEN [node |-> AwaitNode(done.node), flags |-> done.flags]
                  ELSE done
    ELSE AutoAwait_generic_visit(names, node, 1, flags)

\* tree = _AutoAwait(_async_tool_names).visit(tree) for a block of statements
RewriteBlock ==
    /\ rw_names = {}
    /\ \E names \in {nm \in RwNameSets : "read_file" \in nm}, stmts \in ScopeBlocks :
          /\ rw_names' = names
          /\ rw_tree' = ModuleNode(stmts)
          /\ rw_out' = AutoAwait_walk(names, ModuleNode(stmts), NewFlags).node
    /\ UNCHANGED <<histVars, execVars, proxyVars, regVars, gVars, askVars, snapVars, laterVars>>

\* def f(): return e, lambda: e and async def f(): return e, with e the one
\* child expression.
ScopeKinds == {"def", "lambda", "asyncdef"}
ScopeNode(kind, e) == [kind |-> kind, callee |-> NoCallee, kids |-> <<e>>]
DefStmts ==
    ScopeExprs(1) \cup {ScopeNode(x[1], x[2]) : x \in ScopeKinds \X ScopeExprs(1)}
DefBlocks == UNION {[1..n -> DefStmts] : n \in 1..2}

\* compile(mod, "<repl>", "single", flags=_ASYNC_FLAG) succeeds: with
\* top-level await allowed, an await is a SyntaxError exactly inside a
\* function that is not async.  ctx is "top", "sync" or "async".
RECURSIVE Compiles(_, _)
Compiles(node, ctx) ==
    LET inner == IF node.kind \in {"def", "lambda"} THEN "sync"
                 ELSE IF node.kind = "asyncdef" THEN "async"
                 ELSE ctx
    IN  /\ node.kind = "await" => ctx # "sync"
        /\ \A k \in DOMAIN node.kids : Compiles(node.kids[k], inner)

\* The rewrite of a block with function definitions and lambdas.
RewriteDefs ==
    /\ rw_names = {}
    /\ \E names \in {nm \in RwNameSets : "read_file" \in nm}, stmts \in DefBlocks :
          /\ rw_names' = names
          /\ rw_tree' = ModuleNode(stmts)
          /\ rw_out' = AutoAwait_walk(names, ModuleNode(stmts), NewFlags).node
    /\ UNCHANGED <<histVars, execVars, proxyVars, regVars, gVars, askVars, snapVars, laterVars>>

\* The rewriter object is dropped; the next block gets a new one.
RewriteDone ==
    /\ rw_names # {}
    /\ rw_names' = {}
    /\ rw_tree' = Leaf
    /\ rw_out' = Leaf
    /\ UNCHANGED <<histVars, execVars, proxyVars, regVars, gVars, askVars, snapVars, laterVars>>

(***************************************************************************)
(* _call under asyncio.gather: the executor and the bridge                 *)
(***************************************************************************)
\* Largest number of calls awaited together.
MaxCalls == 3
\* Worker threads of the default executor that run_in_executor(None, ...)
\* uses: min(32, os.cpu_count() + 4) in CPython, scaled down.
MaxWorkers == 2

Calls == 1..MaxCalls
Payloads == {"a", "b"}
NoAnswer == [call |-> 0, val |-> ""]

\* What invoke_tool returns for a call: the host's result for the arguments
\* it was handed (the call is identified by its arguments).
BridgeAnswer(c, v) == [call |-> c, val |-> v]

InFlight == {c \in 1..g_n : g_status[c] = "inflight"}

\* await asyncio.gather(_call(...), ...): the coroutines become tasks.
GatherStart ==
    /\ g_n = 0
    /\ \E n \in Calls :
          /\ g_n' = n
          /\ g_status' = [c \in 1..n |-> "new"]
          /\ g_answer' = [c \in 1..n |-> NoAnswer]
          /\ g_result' = [c \in 1..n |-> NoAnswer]
    /\ g_queue' = <<>>
    /\ g_order' = <<>>
    /\ UNCHANGED <<histVars, execVars, proxyVars, regVars, rwVars, askVars, snapVars, laterVars>>

\* The next task runs _call up to "await loop.run_in_executor(None,
\* invoke_tool, ...)": the work item goes to an idle (or new) worker thread,
\* which enters the bridge, or waits in the executor's queue when all
\* MaxWorkers threads are busy.
Submit ==
    /\ \E c \in 1..g_n :
          /\ g_status[c] = "new"
          /\ \A b \in 1..(c - 1) : g_status[b] # "new"
          /\ IF Cardinality(InFlight) < MaxWorkers
             THEN /\ g_status' = [g_status EXCEPT ![c] = "inflight"]
                  /\ UNCHANGED g_queue
             ELSE /\ g_status' = [g_status EXCEPT ![c] = "queued"]
                  /\ g_queue' = Append(g_queue, c)
    /\ UNCHANGED <<g_n, g_answer, g_order, g_result>>
    /\ UNCHANGED <<histVars, execVars, proxyVars, regVars, rwVars, askVars, snapVars, laterVars>>

\* The host completes one of the calls in flight, whichever it likes; the
\* worker thread sets the call's future and takes the next queued work item.
BridgeReturn ==
    /\ \E c \in InFlight, v \in Payloads :
          /\ g_answer' = [g_answer EXCEPT ![c] = BridgeAnswer(c, v)]
          /\ g_order' = Append(g_order, c)
          /\ IF g_queue = <<>>
             THEN /\ g_status' = [g_status EXCEPT ![c] = "answered"]
                  /\ UNCHANGED g_queue
             ELSE /\ g_status' = [g_status EXCEPT ![c] = "answered",
                                                  ![Head(g_queue)] = "inflight"]
                  /\ g_queue' = Tail(g_queue)
    /\ UNCHANGED <<g_n, g_result>>
    /\ UNCHANGED <<histVars, execVars, proxyVars, regVars, rwVars, askVars, snapVars, laterVars>>

\* result_json = await ...: the awaiter of a call resumes with the result of
\* the future run_in_executor gave it.  The tasks gather created all run
\* their first step before any of them is resumed.
ResultByCompletionOrder(c) ==
    IF c <= Len(g_order) THEN g_answer[g_order[c]] ELSE g_answer[c]
FutureResult(c) == g_answer[c]

Receive ==
    /\ \A b \in 1..g_n : g_status[b] # "new"
    /\ \E c \in 1..g_n :
          /\ g_status[c] = "answered"
          /\ g_status' = [g_status EXCEPT ![c] = "received"]
          /\ g_result' = [g_result EXCEPT ![c] = FutureResult(c)]
    /\ UNCHANGED <<g_n, g_queue, g_answer, g_order>>
    /\ UNCHANGED <<histVars, execVars, proxyVars, regVars, rwVars, askVars, snapVars, laterVars>>

\* gather returns once every call has been received.
GatherDone ==
    /\ g_n > 0
    /\ \A c \in 1..g_n : g_status[c] = "received"
    /\ g_n' = 0
    /\ g_status' = <<>>
    /\ g_queue' = <<>>
    /\ g_answer' = <<>>
    /\ g_order' = <<>>
    /\ g_result' = <<>>
    /\ UNCHANGED <<histVars, execVars, proxyVars, regVars, rwVars, askVars, snapVars, laterVars>>

(***************************************************************************)
(* _ask                                                                    *)
(***************************************************************************)
Answers == {"1. Execute plan", "no"}

\* if _headless: raise RuntimeError(...)
AskNeverRefused(hl) == FALSE
AskRefused(hl) == hl

\* await ask(question): in headless mode RuntimeError is raised at once;
\* otherwise ask_user is handed to the executor and the coroutine waits.
AskInvoke ==
    /\ tools_initialized
    /\ ask_pc = "idle"
    /\ IF AskRefused(headless)
       THEN /\ ask_outcome' = [kind |-> "raise", value |-> "RuntimeError"]
            /\ ask_pc' = "done"
            /\ UNCHANGED ask_calls
       ELSE /\ ask_calls' = ask_calls + 1
            /\ ask_pc' = "waiting"
            /\ UNCHANGED ask_outcome
    /\ UNCHANGED ask_reply
    /\ UNCHANGED <<histVars, execVars, proxyVars, regVars, rwVars, gVars, snapVars, laterVars>>

\* The host's ask_user returns the user's answer; _ask prints it and returns it.
AskAnswer ==
    /\ ask_pc = "waiting"
    /\ \E answer \in Answers :
          /\ ask_reply' = answer
          /\ ask_outcome' = [kind |-> "return", value |-> answer]
    /\ ask_pc' = "done"
    /\ UNCHANGED ask_calls
    /\ UNCHANGED <<histVars, execVars, proxyVars, regVars, rwVars, gVars, snapVars, laterVars>>

\* The invocation is over; the next one starts afresh.
AskDone ==
    /\ ask_pc = "done"
    /\ ask_pc' = "idle"
    /\ ask_calls' = 0
    /\ ask_reply' = None
    /\ ask_outcome' = NoOutcome
    /\ UNCHANGED <<histVars, execVars, proxyVars, regVars, rwVars, gVars, snapVars, laterVars>>

(***************************************************************************)
(* _handle_snapshot, _handle_restore and _handle_reset                     *)
(***************************************************************************)
\* Names a script binds: plain variables, a private one, and one that is a
\* tool name in some sessions.
SnapUserNames == {"x", "y", "_t", "read_file"}

\* Values a script binds: two picklable ones and a generator, which dill
\* cannot serialise.  y and the other names take the first value only.
SnapUserValues == {"1", "2", "gen"}
UserValue(v) == [kind |-> "user", val |-> v]
SnapAssignments ==
    {<<"x", v>> : v \in SnapUserValues} \cup {<<n, "1">> : n \in SnapUserNames \ {"x"}}

\* The tool definitions of the sessions that take and receive snapshots.
SnapToolDefs ==
    { EmptyMap,
      [n \in {"read_file"} |-> [hidden |-> FALSE, inject |-> TRUE]],
      [n \in {"exit_plan_mode"} |-> [hidden |-> TRUE, inject |-> FALSE]] }

\* k.startswith("_") over the names of the model.
StartsWithUnderscore(name) == name \in {"_t", "_history", "_mem", "__agent_id__"}

\* The skip literal of _handle_snapshot.
SnapshotSkip ==
    {"json", "asyncio", "dill", "print", "done", "list_tools", "find_tools",
     "find_history", "find_mem", "reset_repl", "ask", "T", "ToolInfo",
     "HistoryMatch", "MemMatch"}

\* k.startswith("_") or k in skip, skip holding the literal and the names of
\* the tool definitions.
Skipped(name, defs) ==
    StartsWithUnderscore(name) \/ name \in SnapshotSkip \cup DOMAIN defs

\* The object a registered name is bound to.
BoundObject(name) ==
    [kind |-> reg_ns[name], val |-> IF name = "__agent_id__" THEN agent_id ELSE name]

\* _ns: the registered bindings, overlaid by what scripts and restore bound.
LiveNs ==
    [n \in DOMAIN reg_ns \cup DOMAIN user_ns |->
        IF n \in DOMAIN user_ns THEN user_ns[n] ELSE BoundObject(n)]

\* dill.dumps(v) in the try block: a user value is serialised unless it is the
\* generator; an object of the module (class, function defined in
\* _register_tools) is serialised or not as dill resolves the module, which
\* the embedding decides (resolves).
AlwaysSerialises(value, resolves) == TRUE
TrialSerialises(value, resolves) ==
    IF value.kind = "user" THEN value.val # "gen" ELSE resolves

\* The candidates of a snapshot: the entries neither private nor skipped.
Candidates(nsp, defs) == {n \in DOMAIN nsp : ~Skipped(n, defs)}

\* The data dict _handle_snapshot builds.
SnapshotData(nsp, defs, resolves) ==
    [n \in {m \in Candidates(nsp, defs) : TrialSerialises(nsp[m], resolves)} |-> nsp[n]]

\* dill.dumps(data).hex(): a user value travels as the hex digits of its
\* text, an object of the module as a reference to its name.
HexOf(val) == CASE val = "1" -> "31" [] val = "2" -> "32" [] OTHER -> ""
EncodeValue(value) ==
    IF value.kind = "user"
    THEN [tag |-> "value", hex |-> HexOf(value.val), of |-> "user"]
    ELSE [tag |-> "ref", hex |-> value.val, of |-> value.kind]
DumpsHex(data) == [n \in DOMAIN data |-> EncodeValue(data[n])]

\* dill.loads(bytes.fromhex(data_str)).
TextOf(hex) == CASE hex = "31" -> "1" [] hex = "32" -> "2" [] OTHER -> "?"
DecodeValueSwapped(enc) ==
    IF enc.tag = "value"
    THEN [kind |-> "user", val |-> IF enc.hex = "31" THEN "2" ELSE "1"]
    ELSE [kind |-> enc.of, val |-> enc.hex]
DecodeValue(enc) ==
    IF enc.tag = "value"
    THEN [kind |-> "user", val |-> TextOf(enc.hex)]
    ELSE [kind |-> enc.of, val |-> enc.hex]
LoadsHex(blob) == [n \in DOMAIN blob |-> DecodeValue(blob[n])]

NoBlob == [has |-> FALSE, data |-> EmptyMap]
NoSnapSrc == [ns |-> EmptyMap, resolves |-> FALSE]
NoFrame == [type |-> "", id |-> "", data |-> EmptyMap]
NoPre == [id |-> "", ns |-> EmptyMap]
SnapIds == {"s1", "s2"}

\* The init command of a session that takes or receives snapshots.
SnapRegister ==
    /\ ~tools_initialized
    /\ \E defs \in SnapToolDefs, aid \in AgentIds, hl \in BOOLEAN : DoRegister(defs, aid, hl)
    /\ UNCHANGED reg_bridge
    /\ UNCHANGED snapVars
    /\ UNCHANGED <<histVars, execVars, proxyVars, rwVars, gVars, askVars, laterVars>>

\* A statement of a block binds a name of _ns.
SnapAssign ==
    /\ tools_initialized
    /\ snap_op = "none"
    /\ \E a \in SnapAssignments :
          user_ns' = Update(user_ns, [m \in {a[1]} |-> UserValue(a[2])])
    /\ UNCHANGED <<host_blob, snap_src, snap_frame, snap_op, pre_ns>>
    /\ UNCHANGED <<histVars, execVars, proxyVars, regVars, rwVars, gVars, askVars, laterVars>>

\* _handle_snapshot(snap_id).
HandleSnapshot ==
    /\ snap_op = "none"
    /\ \E id \in SnapIds, resolves \in BOOLEAN :
          LET data == SnapshotData(LiveNs, tool_defs, resolves)
              cands == Candidates(LiveNs, tool_defs)
          IN  /\ snap_frame' = [type |-> "snapshot_result", id |-> id,
                                data |-> DumpsHex(data)]
              /\ host_blob' = [has |-> TRUE, data |-> DumpsHex(data)]
              /\ snap_src' = [ns |-> [n \in cands |-> LiveNs[n]], resolves |-> resolves]
              /\ pre_ns' = [id |-> id, ns |-> LiveNs]
    /\ snap_op' = "snapshot"
    /\ UNCHANGED user_ns
    /\ UNCHANGED <<histVars, execVars, proxyVars, regVars, rwVars, gVars, askVars, laterVars>>

\* _ns.update(saved); the registered bindings stay underneath the overlay.
RestoreInto(nsp, saved) == Update(nsp, saved)

\* _handle_restore(restore_id, data_str), data_str being the blob the host
\* kept from a snapshot.
HandleRestore ==
    /\ snap_op = "none"
    /\ host_blob.has
    /\ \E id \in SnapIds :
          /\ snap_frame' = [type |-> "exec_result", id |-> id, data |-> EmptyMap]
          /\ pre_ns' = [id |-> id, ns |-> LiveNs]
    /\ user_ns' = RestoreInto(user_ns, LoadsHex(host_blob.data))
    /\ snap_op' = "restore"
    /\ UNCHANGED <<host_blob, snap_src>>
    /\ UNCHANGED <<histVars, execVars, proxyVars, regVars, rwVars, gVars, askVars, laterVars>>

\* _handle_reset(reset_id): _reset_repl(), then the reset_result frame.
HandleReset ==
    /\ snap_op = "none"
    /\ ResetBody
    /\ \E id \in SnapIds :
          /\ snap_frame' = [type |-> "reset_result", id |-> id, data |-> EmptyMap]
          /\ pre_ns' = [id |-> id, ns |-> LiveNs]
    /\ snap_op' = "reset"
    /\ UNCHANGED <<host_blob, snap_src>>
    /\ UNCHANGED <<addCount, mem_stamp, mem_op, mem_pre, hyVars, moreVars>>
    /\ UNCHANGED <<execVars, proxyVars, rwVars, gVars, askVars>>

\* The host has read the frame; the next command may arrive.
SnapAck ==
    /\ snap_op # "none"
    /\ snap_op' = "none"
    /\ snap_frame' = NoFrame
    /\ pre_ns' = NoPre
    /\ UNCHANGED <<user_ns, host_blob, snap_src>>
    /\ UNCHANGED <<histVars, execVars, proxyVars, regVars, rwVars, gVars, askVars, laterVars>>

\* A new runtime process starts for a resumed session or a child agent: the
\* module globals have their initial values; the host still holds the blob.
SessionStarts ==
    /\ tools_initialized
    /\ snap_op = "none"
    /\ host_blob.has
    /\ tool_defs' = EmptyMap
    /\ tools_initialized' = FALSE
    /\ reg_ns' = EmptyMap
    /\ reg_T' = {}
    /\ headless' = FALSE
    /\ agent_id' = ""
    /\ async_tool_names' = {}
    /\ async_method_names' = HandleMethods
    /\ reg_bridge' = {}
    /\ user_ns' = EmptyMap
    /\ UNCHANGED <<host_blob, snap_src, snap_frame, snap_op, pre_ns>>
    /\ UNCHANGED <<histVars, execVars, proxyVars, rwVars, gVars, askVars, laterVars>>

(***************************************************************************)
(* Mem, and TurnHistory._serialize / _load                                 *)
(***************************************************************************)
\* Largest turn number the runtime hands to Mem._set_turn.
MaxMemTurn == 2

MemKeys == {"k1", "k2"}

\* Python values handed to Mem.set: strings, integers and None.
PyStr(text) == [t |-> "str", s |-> text, n |-> 0]
PyInt(num) == [t |-> "int", s |-> "", n |-> num]
PyNone == [t |-> "none", s |-> "", n |-> 0]
MemDescriptions == {PyStr("d"), PyInt(7)}
MemValues == {PyNone, PyInt(0)}

\* str(x)
Str(x) ==
    CASE x.t = "str" -> x.s
      [] x.t = "int" -> (CASE x.n = 0 -> "0" [] x.n = 7 -> "7" [] OTHER -> "int")
      [] OTHER -> "None"

MemEntry(key, description, value, turn) ==
    [key |-> key, description |-> description, value |-> value, turn |-> turn]

\* Mem.set: the entry stored under key.
Mem_set_falsy_aliases(key, description, value, turn) ==
    MemEntry(key, Str(description),
             IF value = PyNone \/ value = PyInt(0) THEN Str(description) ELSE Str(value), turn)
Mem_set(key, description, value, turn) ==
    MemEntry(key, Str(description),
             IF value # PyNone THEN Str(value) ELSE Str(description), turn)

\* The keys of a store in the order the dict yields them.
KeyOrder == <<"k1", "k2">>
RECURSIVE StoreItems(_, _)
StoreItems(store, k) ==
    IF k > Len(KeyOrder) THEN <<>>
    ELSE (IF KeyOrder[k] \in DOMAIN store THEN <<store[KeyOrder[k]]>> ELSE <<>>)
            \o StoreItems(store, k + 1)

\* json.dumps / json.loads of a list of dicts: a string travels quoted, a
\* number as its digits, None as null.
\* The fields "turn" and "index" hold numbers, "error" a string or None.
JsonValue(f, v) ==
    IF f \in {"turn", "index"} THEN [json |-> "number", text |-> "", num |-> v]
    ELSE IF f = "tool_calls" THEN [json |-> "array", text |-> "", num |-> 0, items |-> v]
    ELSE IF f = "error" /\ v = None THEN [json |-> "null", text |-> "", num |-> 0]
    ELSE [json |-> "string", text |-> v, num |-> 0]
FromJsonValue(j) ==
    IF j.json = "number" THEN j.num
    ELSE IF j.json = "null" THEN None
    ELSE IF j.json = "array" THEN j.items
    ELSE j.text
JsonDumpsList(dicts) ==
    [k \in 1..Len(dicts) |-> [f \in DOMAIN dicts[k] |-> JsonValue(f, dicts[k][f])]]
JsonLoadsList(text) ==
    [k \in 1..Len(text) |-> [f \in DOMAIN text[k] |-> FromJsonValue(text[k][f])]]

\* Mem._serialize
Mem_serialize(store) == JsonDumpsList(StoreItems(store, 1))

\* Mem._load: for e in entries: self._store[e["key"]] = MemEntry(...)
RECURSIVE Mem_load_from(_, _, _)
Mem_load_from(store, entries, k) ==
    IF k > Len(entries) THEN store
    ELSE Mem_load_from(
            Update(store, [key \in {entries[k].key} |->
                              MemEntry(entries[k].key, entries[k].description,
                                       entries[k].value, entries[k].turn)]),
            entries, k + 1)
Mem_load(store, data) == Mem_load_from(store, JsonLoadsList(data), 1)

\* The memories a parent agent may hand down: entries it stored with set.
ParentEntries(key) == {Mem_set(key, PyStr("d"), PyNone, t) : t \in 0..MaxMemTurn}
ParentStores ==
    UNION {{st \in [ks -> UNION {ParentEntries(key) : key \in ks}] :
               \A key \in ks : st[key].key = key} : ks \in SUBSET MemKeys}

\* The histories a parent agent may hand down, and lists longer than the cap
\* a host may pass to _load.
ParentTurns(n) ==
    {[j \in 1..n |-> [index |-> j - 1, user_message |-> um[j], prose |-> "", code |-> "",
                      output |-> "", error |-> None, tool_calls |-> <<>>,
                      files_read |-> <<>>, files_written |-> <<>>, call |-> j]] :
        um \in [1..n -> UserMessages]}
ParentHistories == UNION {ParentTurns(n) : n \in 1..(MAX_TURNS + 1)}

\* TurnHistory._serialize: the fields of each turn ("call" is no field of the
\* source's Turn).
ToolCallDict(tc) ==
    [tool |-> tc.tool, args |-> ArgsDict(tc.args), result |-> tc.result,
     success |-> tc.success, duration_ms |-> tc.duration_ms]
TurnDictNoIndex(turn) ==
    [user_message |-> turn.user_message, prose |-> turn.prose, code |-> turn.code,
     output |-> turn.output, error |-> turn.error,
     tool_calls |-> [k \in DOMAIN turn.tool_calls |-> ToolCallDict(turn.tool_calls[k])]]
TurnDict(turn) ==
    [index |-> turn.index, user_message |-> turn.user_message, prose |-> turn.prose,
     code |-> turn.code, output |-> turn.output, error |-> turn.error,
     tool_calls |-> [k \in DOMAIN turn.tool_calls |-> ToolCallDict(turn.tool_calls[k])]]
TurnHistory_serialize(ts) == JsonDumpsList([j \in 1..Len(ts) |-> TurnDict(ts[j])])

\* TurnHistory._load: keep the last _MAX_TURNS records, then _add_turn each.
RECURSIVE AddEach(_, _, _)
AddEach(ts, data, k) ==
    IF k > Len(data) THEN ts
    ELSE AddEach(TurnHistory_add_turn(ts, data[k], k), data, k + 1)
TurnHistory_load_oldest(ts, text) ==
    LET data == JsonLoadsList(text)
    IN  AddEach(ts, IF Len(data) > MAX_TURNS THEN SubSeq(data, 1, MAX_TURNS) ELSE data, 1)
TurnHistory_load(ts, text) ==
    LET data == JsonLoadsList(text)
    IN  AddEach(ts, IF Len(data) > MAX_TURNS
                    THEN SubSeq(data, Len(data) - MAX_TURNS + 1, Len(data))
                    ELSE data, 1)

NoMemOp == [op |-> "none", key |-> "", description |-> PyNone, value |-> PyNone,
            mem |-> EmptyMap, hist |-> <<>>]
MemIdle == mem_op = NoMemOp

\* The runtime tells the memory the turn number; turn numbers do not go back.
MemSetTurn ==
    /\ MemIdle
    /\ \E t \in mem_turn..MaxMemTurn : mem_turn' = t
    /\ mem_turn' # mem_turn
    /\ UNCHANGED <<mem_store, mem_stamp, mem_op, mem_pre>>
    /\ UNCHANGED <<histVars, execVars, proxyVars, regVars, rwVars, gVars, askVars, snapVars, hyVars,
                   moreVars>>

\* A script calls mem.set(key, description, value).
MemSet ==
    /\ MemIdle
    /\ \E key \in MemKeys, d \in MemDescriptions, v \in MemValues :
          /\ mem_store' = Update(mem_store, [k \in {key} |-> Mem_set(key, d, v, mem_turn)])
          /\ mem_stamp' = [mem_stamp EXCEPT ![key] = mem_turn]
          /\ mem_op' = [NoMemOp EXCEPT !.op = "set", !.key = key, !.description = d,
                                       !.value = v]
    /\ mem_pre' = mem_store
    /\ UNCHANGED mem_turn
    /\ UNCHANGED <<histVars, execVars, proxyVars, regVars, rwVars, gVars, askVars, snapVars, hyVars,
                   moreVars>>

\* A script calls mem.delete(key): self._store.pop(key, None).
MemDelete ==
    /\ MemIdle
    /\ \E key \in MemKeys :
          /\ mem_store' = [k \in DOMAIN mem_store \ {key} |-> mem_store[k]]
          /\ mem_op' = [NoMemOp EXCEPT !.op = "delete", !.key = key]
    /\ mem_pre' = mem_store
    /\ UNCHANGED <<mem_turn, mem_stamp>>
    /\ UNCHANGED <<histVars, execVars, proxyVars, regVars, rwVars, gVars, askVars, snapVars, hyVars,
                   moreVars>>

\* The host loads the memory a parent agent serialised: _mem._load(data).
MemLoad ==
    /\ MemIdle
    /\ \E parent \in ParentStores \ {EmptyMap} :
          /\ mem_store' = Mem_load(mem_store, Mem_serialize(parent))
          /\ mem_stamp' = [k \in MemKeys |->
                              IF k \in DOMAIN parent THEN parent[k].turn ELSE mem_stamp[k]]
          /\ mem_op' = [NoMemOp EXCEPT !.op = "load", !.mem = parent]
    /\ mem_pre' = mem_store
    /\ UNCHANGED mem_turn
    /\ UNCHANGED <<histVars, execVars, proxyVars, regVars, rwVars, gVars, askVars, snapVars, hyVars,
                   moreVars>>

\* The host loads the history a parent agent serialised into the fresh
\* history of a child session: _history._load(data).
HistLoad ==
    /\ MemIdle
    /\ turns = <<>>
    /\ \E parent \in ParentHistories :
          /\ turns' = TurnHistory_load(turns, TurnHistory_serialize(parent))
          /\ mem_op' = [NoMemOp EXCEPT !.op = "hist_load", !.hist = parent]
    /\ addCount' = Len(turns')
    /\ mem_pre' = mem_store
    /\ UNCHANGED <<mem_store, mem_turn, mem_stamp>>
    /\ UNCHANGED <<execVars, proxyVars, regVars, rwVars, gVars, askVars, snapVars, hyVars,
                   moreVars>>

\* The operation is over; a child session that loaded a history ends and the
\* next one starts with a fresh history.
MemOpDone ==
    /\ ~MemIdle
    /\ mem_op' = NoMemOp
    /\ mem_pre' = EmptyMap
    /\ turns' = IF mem_op.op = "hist_load" THEN <<>> ELSE turns
    /\ addCount' = IF mem_op.op = "hist_load" THEN 0 ELSE addCount
    /\ UNCHANGED <<mem_store, mem_turn, mem_stamp>>
    /\ UNCHANGED <<execVars, proxyVars, regVars, rwVars, gVars, askVars, snapVars, hyVars,
                   moreVars>>

(***************************************************************************)
(* _call: decoding and wrapping the result of a success envelope           *)
(***************************************************************************)
\* Largest number of items in a task_list / skill_list result.
MaxItems == 2

ObjectIds == {"a", "b", "c"}

\* Decoded JSON values: dict, str, list, None.
PyDict(d) == [py |-> "dict", d |-> d]
PyText(text) == [py |-> "str", s |-> text]
PyList(l) == [py |-> "list", l |-> l]
PyNull == [py |-> "None"]

\* d.get(key, default)
GetOr(d, key, default) == IF key \in DOMAIN d THEN d[key] ELSE default

\* The objects the host describes: one task or skill, and lists of them.
ItemDicts == {("id" :> o) @@ ("name" :> o) : o \in ObjectIds}
ItemLists == UNION {[1..n -> ItemDicts] : n \in 0..MaxItems}
ResultDicts ==
    {("__handle__" :> h) @@ ("id" :> o) : h \in {"shell", "agent", "file"}, o \in ObjectIds}
    \cup {("__type__" :> t) @@ ("id" :> o) @@ ("name" :> o) :
             t \in {"task", "skill", "skill_summary", "note"}, o \in ObjectIds}
    \cup {("__type__" :> t) @@ ("items" :> l) : t \in {"task_list", "skill_list"}, l \in ItemLists}
    \cup {("__type__" :> t) : t \in {"task_list", "skill_list"}}
    \cup ItemDicts

\* result["result"] of a success envelope: null or "" (falsy), or a JSON text.
FalsyResult(raw) == [falsy |-> TRUE, raw |-> raw, doc |-> PyNull]
JsonText(value) == [falsy |-> FALSE, raw |-> "json", doc |-> value]
SuccessResults ==
    {FalsyResult(None), FalsyResult("")}
    \cup {JsonText(PyDict(d)) : d \in ResultDicts}
    \cup {JsonText(PyText("val")), JsonText(PyList(<<PyText("val")>>)), JsonText(PyNull)}

\* The wrapper objects.
ShellHandle(id) == [py |-> "ShellHandle", id |-> id]
AgentHandle(id) == [py |-> "AgentHandle", id |-> id]
Task(data) == [py |-> "Task", id |-> GetOr(data, "id", "")]
Skill(data) == [py |-> "Skill", name |-> GetOr(data, "name", "")]
SkillSummary(data) == [py |-> "SkillSummary", name |-> GetOr(data, "name", "")]

\* The wrapping of a decoded value, of _call.
HydrateAnyHandleAsShell(value) ==
    IF value.py = "dict" /\ "__handle__" \in DOMAIN value.d THEN ShellHandle(value.d["id"])
    ELSE value
Hydrate(value) ==
    IF value.py = "dict" /\ GetOr(value.d, "__handle__", None) = "shell"
    THEN ShellHandle(value.d["id"])
    ELSE IF value.py = "dict" /\ GetOr(value.d, "__handle__", None) = "agent"
    THEN AgentHandle(value.d["id"])
    ELSE IF value.py = "dict" /\ "__type__" \in DOMAIN value.d
    THEN LET t == value.d["__type__"]
             items == GetOr(value.d, "items", <<>>)
         IN  CASE t = "task" -> Task(value.d)
               [] t = "task_list" -> PyList([j \in 1..Len(items) |-> Task(items[j])])
               [] t = "skill" -> Skill(value.d)
               [] t = "skill_summary" -> SkillSummary(value.d)
               [] t = "skill_list" -> PyList([j \in 1..Len(items) |-> SkillSummary(items[j])])
               [] OTHER -> value
    ELSE value

\* value = json.loads(result["result"]) if result["result"] else None, wrapped.
CallSuccessValue(result) ==
    IF result.falsy THEN PyNull ELSE Hydrate(result.doc)

\* _call gets a success envelope from the bridge and returns.
CallReturns ==
    /\ hy_pc = "idle"
    /\ \E name \in ToolNames, result \in SuccessResults :
          /\ hy_name' = name
          /\ hy_result' = result
          /\ hy_value' = CallSuccessValue(result)
    /\ hy_pc' = "returned"
    /\ UNCHANGED <<histVars, execVars, proxyVars, regVars, rwVars, gVars, askVars, snapVars,
                   memVars, moreVars>>

\* The caller has the value; the next call starts afresh.
CallConsumed ==
    /\ hy_pc = "returned"
    /\ hy_pc' = "idle"
    /\ hy_name' = ""
    /\ hy_result' = FalsyResult(None)
    /\ hy_value' = PyNull
    /\ UNCHANGED <<histVars, execVars, proxyVars, regVars, rwVars, gVars, askVars, snapVars,
                   memVars, moreVars>>

(***************************************************************************)
(* The claim_task proxy                                                    *)
(***************************************************************************)
\* Sessions whose tool definitions hold claim_task(id, owner).
ClaimToolDefs ==
    {[n \in {"claim_task"} \cup more |-> [hidden |-> FALSE, inject |-> inj]] :
        more \in {{}, {"read_file"}}, inj \in BOOLEAN}
ClaimTool == [name |-> "claim_task", pnames |-> <<"id", "owner">>]

\* How a script calls claim_task: no argument, or the task id positionally,
\* and id / owner by keyword or not at all.
ClaimArgSeqs == {<<>>} \cup {<<Scalar(v)>> : v \in Scalars}
ClaimKwMaps ==
    UNION {[d -> {Scalar(v) : v \in Scalars \cup AgentIds}] : d \in SUBSET {"id", "owner"}}

\* The init command of such a session.
ClaimRegister ==
    /\ ~tools_initialized
    /\ \E defs \in ClaimToolDefs, aid \in AgentIds, hl \in BOOLEAN : DoRegister(defs, aid, hl)
    /\ UNCHANGED reg_bridge
    /\ UNCHANGED <<histVars, execVars, proxyVars, extVars>>

\* The script calls the claim_task proxy (the bare global, or T.claim_task):
\* the generated fn reaches _call("claim_task", params).
ClaimInvoke ==
    /\ tools_initialized
    /\ ClaimTool.name \in reg_T
    /\ proxyCall = NoInvocation
    /\ \E args \in ClaimArgSeqs, kw \in ClaimKwMaps :
          /\ proxyCall' = [tool |-> ClaimTool.name, pnames |-> ClaimTool.pnames,
                           args |-> args, kw |-> kw]
          /\ dispatched' = [name |-> ClaimTool.name,
                            params |-> ProxyParams(ClaimTool.pnames, args, kw)]
    /\ UNCHANGED <<histVars, execVars, regVars, extVars>>

(***************************************************************************)
(* Task handles: t.start() in a block                                      *)
(***************************************************************************)
TaskIds == {"t1", "t2"}
\* Longest block.
MaxBlock == 2

\* The statements of the block: t.start(), await t.start(), t.done(),
\* print(t.start()) and print('x').
TaskCallee(m) == [form |-> "attr", recv |-> "t", id |-> m]
PrintCallee == [form |-> "name", recv |-> "", id |-> "print"]
StartStatement == CallNode(TaskCallee("start"), <<>>)
TaskStatements ==
    {StartStatement,
     AwaitNode(StartStatement),
     CallNode(TaskCallee("done"), <<>>),
     CallNode(PrintCallee, <<StartStatement>>),
     CallNode(PrintCallee, <<Leaf>>)}
TaskBlocks == UNION {[1..n -> TaskStatements] : n \in 1..MaxBlock}

\* Task.start and Task.done: the one _call each of them makes.
Task_start_unowned(id) ==
    [name |-> "claim_task", params |-> ("id" :> id @@ "owner" :> "")]
Task_start(id) ==
    [name |-> "claim_task", params |-> ("id" :> id @@ "owner" :> SavedAgentId)]
Task_done(id) ==
    [name |-> "update_task", params |-> ("id" :> id @@ "status" :> "completed")]
TaskMethodCall(m, id) == IF m = "start" THEN Task_start(id) ELSE Task_done(id)

\* The _call invocations made while an expression is evaluated: arguments
\* first, then the call itself.  A method of t only builds a coroutine; its
\* body runs when that coroutine is the operand of an await.
RECURSIVE TaskEval(_, _, _)
RECURSIVE TaskEvalKids(_, _, _)
TaskEval(node, awaited, id) ==
    IF node.kind = "await" THEN TaskEval(node.kids[1], TRUE, id)
    ELSE IF node.kind = "call"
    THEN TaskEvalKids(node.kids, 1, id)
         \o (IF awaited /\ node.callee.recv = "t"
             THEN <<TaskMethodCall(node.callee.id, id)>>
             ELSE <<>>)
    ELSE <<>>
TaskEvalKids(kids, k, id) ==
    IF k > Len(kids) THEN <<>>
    ELSE TaskEval(kids[k], FALSE, id) \o TaskEvalKids(kids, k + 1, id)

\* _handle_exec up to the loop: parse, and rewrite when _async_tool_names is
\* not empty.  Task is bound by _register_tools, so t exists only afterwards.
TaskExecStart ==
    /\ tk_pc = "idle"
    /\ tools_initialized
    /\ \E id \in TaskIds, b \in TaskBlocks :
          /\ tk_task' = id
          /\ tk_block' = b
          /\ tk_code' = [k \in DOMAIN b |->
                            IF async_tool_names # {}
                            THEN AutoAwait_visit(async_tool_names, b[k], FALSE, FALSE)
                            ELSE b[k]]
    /\ tk_i' = 1
    /\ tk_log' = <<>>
    /\ tk_marks' = <<>>
    /\ tk_pc' = "loop"
    /\ UNCHANGED <<histVars, execVars, proxyVars, regVars, rwVars, gVars, askVars, snapVars,
                   memVars, hyVars, planVars, rankVars, findVars, ovVars>>

\* One turn of the loop: the statement is compiled and run to its end; a
\* ToolError of its last _call leaves the loop.
TaskStatement ==
    /\ tk_pc = "loop"
    /\ LET calls == TaskEval(tk_code[tk_i], FALSE, tk_task)
       IN /\ tk_log' = tk_log \o calls
          /\ tk_marks' = Append(tk_marks, Len(tk_log))
          /\ \E ok \in BOOLEAN :
                /\ ~ok => calls # <<>>
                /\ IF ok
                   THEN /\ tk_i' = tk_i + 1
                        /\ tk_pc' = IF tk_i + 1 > Len(tk_code) THEN "sent" ELSE "loop"
                   ELSE /\ tk_pc' = "failed"
                        /\ UNCHANGED tk_i
    /\ UNCHANGED <<tk_task, tk_block, tk_code>>
    /\ UNCHANGED <<histVars, execVars, proxyVars, regVars, rwVars, gVars, askVars, snapVars,
                   memVars, hyVars, planVars, rankVars, findVars, ovVars>>

\* exec_result is sent; the next exec command starts from here.
TaskExecDone ==
    /\ tk_pc \in {"sent", "failed"}
    /\ tk_pc' = "idle"
    /\ tk_task' = ""
    /\ tk_block' = <<>>
    /\ tk_code' = <<>>
    /\ tk_i' = 0
    /\ tk_log' = <<>>
    /\ tk_marks' = <<>>
    /\ UNCHANGED <<histVars, execVars, proxyVars, regVars, rwVars, gVars, askVars, snapVars,
                   memVars, hyVars, planVars, rankVars, findVars, ovVars>>

(***************************************************************************)
(* _exit_plan_mode                                                         *)
(***************************************************************************)
\* plan_content of the host's answer: none, a short plan, one longer than the
\* 2000 characters of the preview.
PlanContents == {"", "short", "long"}

\* preview = plan[:2000] + ("..." if len(plan) > 2000 else "")
PlanPreview(plan) == [head |-> plan, ellipsis |-> plan = "long"]

PlanOptions == <<"Execute plan", "Edit plan", "Reject">>

\* What the user does at the prompt, and the answer ask_user returns for it:
\* option k comes back as "k. <label>", typed text as it was typed.
Digits == <<"1", "2", "3">>
OptionAnswer(k) == [option |-> k, text |-> <<Digits[k], ".", " ", PlanOptions[k]>>]
TypedAnswer(text) == [option |-> 0, text |-> text]
PlanAnswers ==
    {OptionAnswer(k) : k \in DOMAIN PlanOptions}
    \cup {TypedAnswer(<<"L", "o", "oks good">>), TypedAnswer(<<"1", "0", " more minutes">>)}
NoPlanAnswer == TypedAnswer(<<>>)

\* response.startswith("1.")
PlanApprovedByDigit(response) == Len(response) >= 1 /\ response[1] = "1"
PlanApproved(response) ==
    Len(response) >= 2 /\ response[1] = "1" /\ response[2] = "."

FinalFrame(text) == [type |-> "message", text |-> text, kind |-> "final"]

\* await exit_plan_mode(): the wrapper enters _call("exit_plan_mode", {}).
PlanExitInvoke ==
    /\ tools_initialized
    /\ pl_pc = "idle"
    /\ pl_pc' = "called"
    /\ UNCHANGED <<pl_tool, pl_plan, pl_asks, pl_reply, pl_frames, pl_stdout, pl_out>>
    /\ UNCHANGED <<histVars, execVars, proxyVars, regVars, rwVars, gVars, askVars, snapVars,
                   memVars, hyVars, tkVars, rankVars, findVars, ovVars>>

\* The host answers the tool call.  On a failure envelope _call raises
\* ToolError.  Otherwise a headless session returns one of two texts, and an
\* interactive one enters _ask with the preview and the three options.
PlanToolReturns ==
    /\ pl_pc = "called"
    /\ \/ /\ pl_tool' = "error"
          /\ pl_out' = [kind |-> "raise", value |-> "ToolError"]
          /\ pl_pc' = "done"
          /\ UNCHANGED <<pl_plan, pl_asks, pl_stdout>>
       \/ \E plan \in PlanContents :
             /\ pl_tool' = "ok"
             /\ pl_plan' = plan
             /\ IF headless
                THEN /\ pl_pc' = "done"
                     /\ IF plan # ""
                        THEN /\ pl_stdout' = Append(pl_stdout,
                                  "[Plan mode exited in headless mode - continue autonomously.]")
                             /\ pl_out' = [kind |-> "return", value |->
                                  <<"Plan finalized in headless mode. Continue executing autonomously.">>]
                        ELSE /\ pl_out' = [kind |-> "return", value |->
                                  <<"Plan file is empty. Continue planning autonomously.">>]
                             /\ UNCHANGED pl_stdout
                     /\ UNCHANGED pl_asks
                ELSE /\ pl_pc' = "asking"
                     /\ pl_asks' = Append(pl_asks, [question |-> PlanPreview(plan),
                                                    options |-> PlanOptions])
                     /\ UNCHANGED <<pl_out, pl_stdout>>
    /\ UNCHANGED <<pl_reply, pl_frames>>
    /\ UNCHANGED <<histVars, execVars, proxyVars, regVars, rwVars, gVars, askVars, snapVars,
                   memVars, hyVars, tkVars, rankVars, findVars, ovVars>>

\* ask_user returns: _ask prints the answer and returns it; the wrapper calls
\* _done when the answer starts with "1.", and returns the answer.
PlanUserAnswers ==
    /\ pl_pc = "asking"
    /\ \E answer \in PlanAnswers :
          /\ pl_reply' = answer
          /\ pl_stdout' = Append(pl_stdout, "[User response]")
          /\ pl_frames' = IF PlanApproved(answer.text)
                          THEN Append(pl_frames, FinalFrame("Plan approved - executing."))
                          ELSE pl_frames
          /\ pl_out' = [kind |-> "return", value |-> answer.text]
    /\ pl_pc' = "done"
    /\ UNCHANGED <<pl_tool, pl_plan, pl_asks>>
    /\ UNCHANGED <<histVars, execVars, proxyVars, regVars, rwVars, gVars, askVars, snapVars,
                   memVars, hyVars, tkVars, rankVars, findVars, ovVars>>

\* The call is over; the next one starts afresh.
PlanExitDone ==
    /\ pl_pc = "done"
    /\ pl_pc' = "idle"
    /\ pl_tool' = ""
    /\ pl_plan' = ""
    /\ pl_asks' = <<>>
    /\ pl_reply' = NoPlanAnswer
    /\ pl_frames' = <<>>
    /\ pl_stdout' = <<>>
    /\ pl_out' = NoOutcome
    /\ UNCHANGED <<histVars, execVars, proxyVars, regVars, rwVars, gVars, askVars, snapVars,
                   memVars, hyVars, tkVars, rankVars, findVars, ovVars>>

(***************************************************************************)
(* _rank_documents                                                         *)
(***************************************************************************)
\* Texts are sequences of characters.  A document has one searched field.
MaxDocs == 3
MaxScore == 2
DocTexts == {<<>>, <<"a">>, <<"A", " ", "b">>, <<"a", "b">>}
Queries == {<<>>, <<"a">>, <<" ">>, <<"a", "b">>}
\* The regex argument: None, the empty pattern, or a pattern of plain letters.
NoRegex == [given |-> FALSE, pattern |-> <<>>]
Pattern(p) == [given |-> TRUE, pattern |-> p]
Regexes == {NoRegex, Pattern(<<>>), Pattern(<<"b">>)}
Modes == {"hybrid", "literal", "regex", None}
Limits == {1, 10}
Corpora == UNION {[1..n -> DocTexts] : n \in 0..MaxDocs}

\* str.lower()
LowerChar(c) == IF c = "A" THEN "a" ELSE IF c = "B" THEN "b" ELSE c
Lower(text) == [k \in DOMAIN text |-> LowerChar(text[k])]

\* needle in haystack
Contains(haystack, needle) ==
    \E k \in 0..(Len(haystack) - Len(needle)) :
        SubSeq(haystack, k + 1, k + Len(needle)) = needle

\* _tokenize: the non-empty runs of [a-zA-Z0-9_] of the lower-cased text.
WordChar(c) == c \notin {" ", "\n"}
RECURSIVE TokenizeFrom(_, _, _)
TokenizeFrom(text, k, run) ==
    IF k > Len(text)
    THEN IF run = <<>> THEN <<>> ELSE <<run>>
    ELSE IF WordChar(text[k])
    THEN TokenizeFrom(text, k + 1, Append(run, text[k]))
    ELSE (IF run = <<>> THEN <<>> ELSE <<run>>) \o TokenizeFrom(text, k + 1, <<>>)
Tokenize(text) == TokenizeFrom(Lower(text), 1, <<>>)
TokenSet(text) == {Tokenize(text)[k] : k \in DOMAIN Tokenize(text)}

\* _coerce_find_mode
CoerceFindMode(mode) == IF mode \in {"hybrid", "regex", "literal"} THEN mode ELSE "hybrid"

\* re.compile(raw) raises re.error: among the patterns of the model, those
\* with a parenthesis that is never closed.
Malformed(pattern) == \E k \in DOMAIN pattern : pattern[k] = "("

\* _compile_regex: None for no pattern and for the empty one; a pattern that
\* does not compile is escaped, so that each of its characters stands for
\* itself.  The pattern is searched without regard to case.
NoFilter == [on |-> FALSE, pattern |-> <<>>, escaped |-> FALSE]
CompileRegexUnescaped(r) ==
    IF ~r.given \/ r.pattern = <<>> THEN NoFilter
    ELSE [on |-> TRUE, pattern |-> r.pattern, escaped |-> FALSE]
CompileRegex(r) ==
    IF ~r.given \/ r.pattern = <<>> THEN NoFilter
    ELSE [on |-> TRUE, pattern |-> r.pattern, escaped |-> Malformed(r.pattern)]

\* One pattern character against one character of the text: "." is any
\* character but the newline unless the pattern was escaped.
CharMatches(filter, k, c) ==
    IF filter.pattern[k] = "." /\ ~filter.escaped THEN c # "\n"
    ELSE LowerChar(filter.pattern[k]) = LowerChar(c)

\* regex_filter.search(haystack)
RegexSearch(filter, haystack) ==
    \E at \in 0..(Len(haystack) - Len(filter.pattern)) :
        \A k \in DOMAIN filter.pattern : CharMatches(filter, k, haystack[at + k])

\* The filter _rank_documents builds: in regex mode from regex, or from the
\* query when regex is None; in the other modes from regex when it is given.
RegexFilter(mode, regex, query) ==
    IF mode = "regex"
    THEN CompileRegex(IF regex.given THEN regex ELSE Pattern(query))
    ELSE IF regex.given THEN CompileRegex(regex) ELSE NoFilter

\* _bm25_scores: a sum of positive terms, one for each query token that occurs
\* in the document, so the score is positive exactly for the documents that
\* hold a query token.  The floating-point value is left open: any whole
\* number up to MaxScore.
Bm25Scores(query_tokens, docs) ==
    {sc \in [DOMAIN docs -> 0..MaxScore] :
        \A d \in DOMAIN docs : sc[d] > 0 <=> TokenSet(docs[d]) \cap query_tokens # {}}

\* scores of _rank_documents: BM25 in hybrid mode with query tokens, else 0.0.
RankScores(mode, query, docs) ==
    IF mode = "hybrid" /\ Tokenize(query) # <<>>
    THEN Bm25Scores({Tokenize(query)[k] : k \in DOMAIN Tokenize(query)}, docs)
    ELSE {[d \in DOMAIN docs |-> 0]}

\* ranked_indices: corpus order, sorted by (-scores[i], i) in hybrid mode.
\* Documents are numbered from 1 here, from 0 in the source.
CorpusOrder(n) == [k \in 1..n |-> k]
RankedIndicesByScoreOnly(mode, scores) ==
    IF mode = "hybrid"
    THEN SortSeq(CorpusOrder(Len(scores)),
                 LAMBDA x, y : scores[x] > scores[y] \/ (scores[x] = scores[y] /\ x > y))
    ELSE CorpusOrder(Len(scores))
RankedIndices(mode, scores) ==
    IF mode = "hybrid"
    THEN SortSeq(CorpusOrder(Len(scores)),
                 LAMBDA x, y : scores[x] > scores[y] \/ (scores[x] = scores[y] /\ x < y))
    ELSE CorpusOrder(Len(scores))

\* include, for one document.
Include(mode, query, filter, score, haystack) ==
    LET query_lower == Lower(query)
        haystack_lower == Lower(haystack)
    IN IF mode = "regex"
       THEN filter.on /\ RegexSearch(filter, haystack)
       ELSE IF mode = "literal"
       THEN /\ query # <<>>
            /\ Contains(haystack_lower, query_lower)
            /\ filter.on => RegexSearch(filter, haystack)
       ELSE /\ query # <<>> =>
                   IF Tokenize(query) # <<>>
                   THEN score > 0 \/ Contains(haystack_lower, query_lower)
                   ELSE Contains(haystack_lower, query_lower)
            /\ filter.on => RegexSearch(filter, haystack)

\* _rank_documents: the (idx, score) pairs of the included documents, in the
\* order of ranked_indices.
RankDocuments(docs, query, mode_given, regex, scores) ==
    LET mode == CoerceFindMode(mode_given)
        filter == RegexFilter(mode, regex, query)
        order == RankedIndices(mode, scores)
        rows == [k \in DOMAIN order |-> [idx |-> order[k], score |-> scores[order[k]]]]
    IN SelectSeq(rows, LAMBDA r : Include(mode, query, filter, r.score, docs[r.idx]))

\* _coerce_limit, for a whole number.
CoerceLimit(limit) == IF limit < 1 THEN 1 ELSE IF limit > 100 THEN 100 ELSE limit

\* ranked[:limit]
Slice(ranked, limit) == SubSeq(ranked, 1, IF Len(ranked) < limit THEN Len(ranked) ELSE limit)

\* A search: find_tools, find_history or find_mem rank their documents and
\* keep the first limit rows.
RankSearch ==
    /\ rk_pc = "idle"
    /\ \E docs \in Corpora, query \in Queries, mode \in Modes, regex \in Regexes,
          limit \in Limits :
          \E scores \in RankScores(CoerceFindMode(mode), query, docs) :
             /\ rk_docs' = docs
             /\ rk_query' = query
             /\ rk_mode' = mode
             /\ rk_regex' = regex
             /\ rk_limit' = limit
             /\ rk_scores' = scores
             /\ rk_ranked' = RankDocuments(docs, query, mode, regex, scores)
             /\ rk_items' = Slice(RankDocuments(docs, query, mode, regex, scores),
                                  CoerceLimit(limit))
    /\ rk_pc' = "ranked"
    /\ UNCHANGED <<wt_weight, wt_factor, wt_order, wt_scaled>>
    /\ UNCHANGED <<histVars, execVars, proxyVars, regVars, rwVars, gVars, askVars, snapVars,
                   memVars, hyVars, tkVars, planVars, findVars, ovVars>>

\* Searches with a regex argument, over texts that hold the characters a
\* pattern can be made of.
FilterTexts == {<<"a">>, <<"B">>, <<"a", "(", "b">>}
FilterCorpora == UNION {[1..n -> FilterTexts] : n \in 1..MaxDocs}
FilterQueries == {<<"a">>, <<"b">>}
FilterRegexes == {Pattern(<<"b">>), Pattern(<<"(">>), Pattern(<<"(", ".">>), Pattern(<<".", "b">>)}
RankFiltered ==
    /\ rk_pc = "idle"
    /\ \E docs \in FilterCorpora, query \in FilterQueries, mode \in Modes,
          regex \in FilterRegexes :
          \E scores \in RankScores(CoerceFindMode(mode), query, docs) :
             /\ rk_docs' = docs
             /\ rk_query' = query
             /\ rk_mode' = mode
             /\ rk_regex' = regex
             /\ rk_scores' = scores
             /\ rk_ranked' = RankDocuments(docs, query, mode, regex, scores)
             /\ rk_items' = Slice(RankDocuments(docs, query, mode, regex, scores),
                                  CoerceLimit(rk_limit))
    /\ rk_pc' = "ranked"
    /\ UNCHANGED <<rk_limit, wt_weight, wt_factor, wt_order, wt_scaled>>
    /\ UNCHANGED <<histVars, execVars, proxyVars, regVars, rwVars, gVars, askVars, snapVars,
                   memVars, hyVars, tkVars, planVars, findVars, ovVars>>

\* The matches are handed to the script; the next search starts afresh.
RankReturned ==
    /\ rk_pc = "ranked"
    /\ rk_pc' = "idle"
    /\ rk_docs' = <<>>
    /\ rk_query' = <<>>
    /\ rk_mode' = None
    /\ rk_regex' = NoRegex
    /\ rk_limit' = 10
    /\ rk_scores' = <<>>
    /\ rk_ranked' = <<>>
    /\ rk_items' = <<>>
    /\ wt_weight' = 1
    /\ wt_factor' = 1
    /\ wt_order' = <<>>
    /\ wt_scaled' = <<>>
    /\ UNCHANGED <<histVars, execVars, proxyVars, regVars, rwVars, gVars, askVars, snapVars,
                   memVars, hyVars, tkVars, planVars, findVars, ovVars>>

(***************************************************************************)
(* _bm25_scores with field weights                                         *)
(***************************************************************************)
\* Largest weight of the searched field.
MaxWeight == 2
\* The constants a weight is multiplied by.
Factors == {1, 2}

\* Documents of one field in which every query token occurs, so that df of
\* every token is n_docs and idf is the same positive number for every token.
WeightTexts == {<<"a", " ", "b">>, <<"a", " ", "a", " ", "b">>,
                <<"a", " ", "b", " ", "b">>, <<"b", " ", "a", " ", "a", " ", "a">>}
WeightCorpora == {<<x, y>> : x \in WeightTexts, y \in WeightTexts}
\* Queries without a repeated token: 1.0 + math.log(qcount) is 1.
WeightQueries == {<<"a">>, <<"a", " ", "b">>}

\* Counter(tokens)[tok]
TokenCount(tokens, tok) == Cardinality({k \in DOMAIN tokens : tokens[k] = tok})

\* Fractions n / d with d > 0.
FracAdd(x, y) == [n |-> x.n * y.d + y.n * x.d, d |-> x.d * y.d]
FracLess(x, y) == x.n * y.d < y.n * x.d

\* One term of a score, with k1 = 3/2 and b = 3/4, where tf = count * weight,
\* dl = len * weight and avgdl = sum(doc_lens) / n_docs:
\*   idf * tf * (k1 + 1) / (tf + k1 * (1 - b + b * dl / avgdl))
\*     = idf * 20 * weight * lens * count
\*           / (8 * count * weight * lens + 3 * lens + 9 * n_docs * len)
\* with lens the sum of the token counts of the documents.  The term is given
\* in units of idf * 20 * weight * lens, the same for every document and
\* token of one call.
Bm25Term(count, len, lens, n_docs, weight) ==
    IF count = 0 \/ weight <= 0 THEN [n |-> 0, d |-> 1]
    ELSE [n |-> count, d |-> 8 * count * weight * lens + 3 * lens + 9 * n_docs * len]

\* scores[i]: the sum of the terms of the query tokens.
RECURSIVE Bm25Sum(_, _, _, _, _)
Bm25Sum(qtokens, tokens, lens, n_docs, weight) ==
    IF qtokens = <<>> THEN [n |-> 0, d |-> 1]
    ELSE FracAdd(Bm25Term(TokenCount(tokens, Head(qtokens)), Len(tokens), lens, n_docs, weight),
                 Bm25Sum(Tail(qtokens), tokens, lens, n_docs, weight))

RECURSIVE SumLens(_)
SumLens(docs) ==
    IF docs = <<>> THEN 0 ELSE Len(Tokenize(Head(docs))) + SumLens(Tail(docs))

\* _bm25_scores(query_tokens, docs, {field: weight})
Bm25WeightedScores(qtokens, docs, weight) ==
    [di \in DOMAIN docs |->
        Bm25Sum(qtokens, Tokenize(docs[di]), SumLens(docs), Len(docs), weight)]

\* _rank_documents in hybrid mode without regex: the documents sorted by
\* (-scores[i], i), those with a positive score or holding the query kept.
WeightedBefore(scores, di, dj) ==
    FracLess(scores[dj], scores[di]) \/ (~FracLess(scores[di], scores[dj]) /\ di < dj)
WeightedRanking(docs, query, weight) ==
    LET scores == Bm25WeightedScores(Tokenize(query), docs, weight)
        place(di) == 1 + Cardinality({dj \in DOMAIN docs : dj # di /\ WeightedBefore(scores, dj, di)})
        sorted == [dp \in DOMAIN docs |-> CHOOSE di \in DOMAIN docs : place(di) = dp]
    IN  SelectSeq(sorted, LAMBDA di : scores[di].n > 0 \/ Contains(Lower(docs[di]), Lower(query)))

\* One search under field weights and the same search with every weight
\* multiplied by one constant.
RankWeighted ==
    /\ rk_pc = "idle"
    /\ \E docs \in WeightCorpora, query \in WeightQueries, weight \in 1..MaxWeight,
          factor \in Factors :
          /\ rk_docs' = docs
          /\ rk_query' = query
          /\ wt_weight' = weight
          /\ wt_factor' = factor
          /\ wt_order' = WeightedRanking(docs, query, weight)
          /\ wt_scaled' = WeightedRanking(docs, query, weight * factor)
    /\ rk_mode' = "hybrid"
    /\ rk_pc' = "ranked"
    /\ UNCHANGED <<rk_regex, rk_limit, rk_scores, rk_ranked, rk_items>>
    /\ UNCHANGED <<histVars, execVars, proxyVars, regVars, rwVars, gVars, askVars, snapVars,
                   memVars, hyVars, tkVars, planVars, findVars, ovVars>>

(***************************************************************************)
(* Turns with tool calls                                                   *)
(***************************************************************************)
\* No history has been loaded from a serialised one.
NoCopy == [loaded |-> FALSE, turns |-> <<>>]

\* Most tool calls in one turn record.
MaxToolCalls == 2

\* Tool names the host reports: the read kinds, the write kinds, another
\* member of ToolName and a name that is none.
ReportedTools ==
    {"read_file", "glob", "grep", "write_file", "edit_file", "find_replace", "diff_file",
     "ls", "my_tool"}
\* Their args: an object with a path, one without, one with an empty path, a
\* JSON string of an object with a path, a string that is no JSON, a list.
ReportedArgs ==
    {ArgsDict([k \in {"path"} |-> "p"]),
     ArgsDict([k \in {"pattern"} |-> "x"]),
     ArgsDict([k \in {"path"} |-> ""]),
     ArgsText([k \in {"path"} |-> "q"], TRUE),
     ArgsText(NoArgs, FALSE),
     ArgsList}
ToolCallData == [tool : ReportedTools, args : ReportedArgs, result : {"r"}, success : {TRUE}]
ToolTurnData ==
    UNION {[index : {0}, user_message : {"m1"}, tool_calls : [1..n -> ToolCallData]] :
              n \in 0..MaxToolCalls}

\* _history = TurnHistory(): a session starts with an empty history.
NewHistory ==
    /\ turns # <<>>
    /\ hf_pc = "idle"
    /\ turns' = <<>>
    /\ addCount' = 0
    /\ th_data' = <<>>
    /\ th_copy' = NoCopy
    /\ UNCHANGED <<hf_pc, hf_query, hf_since, hf_limit, hf_matches>>
    /\ UNCHANGED <<execVars, proxyVars, regVars, rwVars, gVars, askVars, snapVars,
                   memVars, hyVars, tkVars, planVars, rankVars, ovVars>>

\* The host adds the first turn of a session, with its tool calls.
AddTurnTools ==
    /\ turns = <<>>
    /\ \E data \in ToolTurnData :
          /\ AddTurn(data)
          /\ th_data' = data
    /\ UNCHANGED <<th_copy, hf_pc, hf_query, hf_since, hf_limit, hf_matches>>
    /\ UNCHANGED <<execVars, proxyVars, regVars, rwVars, gVars, askVars, snapVars,
                   memVars, hyVars, tkVars, planVars, rankVars, ovVars>>

\* Turn records of a longer session: without index and tool calls, with all
\* text fields, with a read through JSON-text args, with a call of a tool
\* that is no ToolName followed by a write.
SessionTurnData ==
    {[user_message |-> "m1"],
     [index |-> 1, user_message |-> "m2", prose |-> "pr", code |-> "c", output |-> "o",
      error |-> "err"],
     [index |-> 0, user_message |-> "m1",
      tool_calls |-> <<[tool |-> "read_file", args |-> ArgsText([k \in {"path"} |-> "q"], TRUE),
                        result |-> "r", success |-> TRUE, duration_ms |-> 5]>>],
     [index |-> 1, user_message |-> "m1",
      tool_calls |-> <<[tool |-> "my_tool", args |-> ArgsList, result |-> None],
                       [tool |-> "write_file", args |-> ArgsDict([k \in {"path"} |-> "p"]),
                        result |-> "r", success |-> FALSE]>>]}

\* The host adds a turn to the session's history.
AddTurnSession ==
    /\ th_copy = NoCopy
    /\ \E data \in SessionTurnData :
          /\ AddTurn(data)
          /\ th_data' = data
    /\ UNCHANGED <<th_copy, hf_pc, hf_query, hf_since, hf_limit, hf_matches>>
    /\ UNCHANGED <<execVars, proxyVars, regVars, rwVars, gVars, askVars, snapVars,
                   memVars, hyVars, tkVars, planVars, rankVars, ovVars>>

\* A child session loads the serialised history into its empty TurnHistory.
HistoryCopied ==
    /\ th_copy = NoCopy
    /\ turns # <<>>
    /\ th_copy' = [loaded |-> TRUE,
                   turns |-> TurnHistory_load(<<>>, TurnHistory_serialize(turns))]
    /\ UNCHANGED <<th_data, hf_pc, hf_query, hf_since, hf_limit, hf_matches>>
    /\ UNCHANGED <<histVars, execVars, proxyVars, regVars, rwVars, gVars, askVars, snapVars,
                   memVars, hyVars, tkVars, planVars, rankVars, ovVars>>

(***************************************************************************)
(* _find_history_matches                                                   *)
(***************************************************************************)
\* The characters of the user messages of the model.
Spell(message) ==
    IF message = "m1" THEN <<"m", "1">>
    ELSE IF message = "m2" THEN <<"m", "2">>
    ELSE <<>>

\* since_turn = None, written as a number below every index.
NoSince == 0 - 1
\* The since_turn arguments: None, or a turn number.
SinceTurns == {NoSince} \cup 0..MaxAdds
\* The queries: the empty one, and a piece of every message.
FindQueries == {<<>>, <<"m">>}

\* filtered_turns: without since_turn every turn, else the turns whose index
\* is not below it.
FilterSinceIgnored(ts, since) == ts
FilterSince(ts, since) ==
    IF since = NoSince THEN ts ELSE SelectSeq(ts, LAMBDA t : ~(t.index < since))

\* The searched text of a turn: its user_message, for turns whose prose,
\* code, output and tool calls are empty.
HistoryDoc(turn) == Spell(turn.user_message)

\* _find_history_matches in hybrid mode without regex and fields: the
\* HistoryMatch of the first limit ranked rows.
FindHistoryMatches(ts, query, limit, since, scores) ==
    LET filtered_turns == FilterSince(ts, since)
        docs == [k \in DOMAIN filtered_turns |-> HistoryDoc(filtered_turns[k])]
        rows == Slice(RankDocuments(docs, query, "hybrid", NoRegex, scores),
                      CoerceLimit(limit))
    IN  [k \in DOMAIN rows |->
            [turn |-> filtered_turns[rows[k].idx].index,
             score |-> rows[k].score,
             files_read |-> filtered_turns[rows[k].idx].files_read,
             files_written |-> filtered_turns[rows[k].idx].files_written]]

\* The host adds the turn that just ended, numbered by its own turn counter.
AddTurnNumbered ==
    /\ hf_pc = "idle"
    /\ \E data \in [index : {addCount}, user_message : UserMessages] :
          /\ AddTurn(data)
          /\ th_data' = data
    /\ UNCHANGED <<th_copy, hf_pc, hf_query, hf_since, hf_limit, hf_matches>>
    /\ UNCHANGED <<execVars, proxyVars, regVars, rwVars, gVars, askVars, snapVars,
                   memVars, hyVars, tkVars, planVars, rankVars, ovVars>>

\* A script calls _history.find(query, since_turn = c).
HistFind ==
    /\ hf_pc = "idle"
    /\ turns # <<>>
    /\ \E query \in FindQueries, since \in SinceTurns, limit \in Limits :
          \E scores \in RankScores("hybrid", query,
                                   [k \in DOMAIN FilterSince(turns, since) |->
                                       HistoryDoc(FilterSince(turns, since)[k])]) :
             /\ hf_query' = query
             /\ hf_since' = since
             /\ hf_limit' = limit
             /\ hf_matches' = FindHistoryMatches(turns, query, limit, since, scores)
    /\ hf_pc' = "found"
    /\ UNCHANGED <<th_data, th_copy>>
    /\ UNCHANGED <<histVars, execVars, proxyVars, regVars, rwVars, gVars, askVars, snapVars,
                   memVars, hyVars, tkVars, planVars, rankVars, ovVars>>

\* The matches are handed to the script.
HistFound ==
    /\ hf_pc = "found"
    /\ hf_pc' = "idle"
    /\ hf_query' = <<>>
    /\ hf_since' = NoSince
    /\ hf_limit' = 10
    /\ hf_matches' = <<>>
    /\ UNCHANGED <<th_data, th_copy>>
    /\ UNCHANGED <<histVars, execVars, proxyVars, regVars, rwVars, gVars, askVars, snapVars,
                   memVars, hyVars, tkVars, planVars, rankVars, ovVars>>

(***************************************************************************)
(* Two exec handlers on one event loop                                     *)
(***************************************************************************)
Handlers == {1, 2}
\* Most lines written to one capture buffer.
MaxPrints == 2

\* stdout_buf of a handler, as the object sys.stdout can refer to.
BufOf(h) == IF h = 1 THEN "buf1" ELSE "buf2"
NoStreams == [stdout |-> "orig", stderr |-> "orig"]

\* old_stdout, old_stderr = sys.stdout, sys.stderr
SavedStreams(out, err) == [stdout |-> out, stderr |-> err]

\* print(...) in a statement: the line goes to whatever sys.stdout is.
WriteLine(bufs, h) ==
    [g \in Handlers |->
        IF sys_stdout = BufOf(g) /\ Len(bufs[g]) < MaxPrints THEN Append(bufs[g], h)
        ELSE bufs[g]]

\* _handle_exec up to the first await of the block: the streams are saved, the
\* buffer is installed, the first statement prints, the coroutine is suspended.
OverlapStart ==
    \E h \in Handlers :
        /\ ov_pc[h] = "idle"
        /\ ov_old' = [ov_old EXCEPT ![h] = SavedStreams(sys_stdout, sys_stderr)]
        /\ sys_stdout' = BufOf(h)
        /\ sys_stderr' = BufOf(h)
        /\ ov_buf' = [ov_buf EXCEPT ![h] = <<h>>]
        /\ ov_pc' = [ov_pc EXCEPT ![h] = "suspended"]
        /\ ov_overlap' = (ov_overlap \/ \E g \in Handlers \ {h} : ov_pc[g] = "suspended")
        /\ UNCHANGED <<sys_displayhook, fd2, ns, pc, exec_id, block, old_stdout, old_stderr,
                       old_displayhook, saved_fd, error, stdout_buf, i, pending, reply, sent,
                       ran, raisedAt, ns0, mutes, unmutes, bridgeLog, returned, underscore,
                       callOutcome>>
        /\ UNCHANGED <<histVars, proxyVars, regVars, rwVars, gVars, askVars, snapVars,
                       memVars, hyVars, tkVars, planVars, rankVars, findVars>>

\* The await returned and the next statement of the block prints.
OverlapPrint ==
    \E h \in Handlers :
        /\ ov_pc[h] = "suspended"
        /\ ov_buf' = WriteLine(ov_buf, h)
        /\ ov_buf' # ov_buf
        /\ UNCHANGED <<ov_pc, ov_old, ov_overlap>>
        /\ UNCHANGED <<histVars, execVars, proxyVars, regVars, rwVars, gVars, askVars, snapVars,
                       memVars, hyVars, tkVars, planVars, rankVars, findVars>>

\* The block is through: sys.stdout, sys.stderr = old_stdout, old_stderr.
OverlapFinish ==
    \E h \in Handlers :
        /\ ov_pc[h] = "suspended"
        /\ sys_stdout' = ov_old[h].stdout
        /\ sys_stderr' = ov_old[h].stderr
        /\ ov_pc' = [ov_pc EXCEPT ![h] = "done"]
        /\ UNCHANGED <<ov_old, ov_buf, ov_overlap>>
        /\ UNCHANGED <<sys_displayhook, fd2, ns, pc, exec_id, block, old_stdout, old_stderr,
                       old_displayhook, saved_fd, error, stdout_buf, i, pending, reply, sent,
                       ran, raisedAt, ns0, mutes, unmutes, bridgeLog, returned, underscore,
                       callOutcome>>
        /\ UNCHANGED <<histVars, proxyVars, regVars, rwVars, gVars, askVars, snapVars,
                       memVars, hyVars, tkVars, planVars, rankVars, findVars>>

\* Both coroutines are gone; the host sends the next commands.  A buffer that
\* was left installed is from now on a stale one.
StaleBuffer(stream) == IF stream \in {BufOf(h) : h \in Handlers} THEN "stale" ELSE stream
OverlapOver ==
    /\ \A h \in Handlers : ov_pc[h] = "done"
    /\ ov_pc' = [h \in Handlers |-> "idle"]
    /\ ov_old' = [h \in Handlers |-> NoStreams]
    /\ ov_buf' = [h \in Handlers |-> <<>>]
    /\ ov_overlap' = FALSE
    /\ sys_stdout' = StaleBuffer(sys_stdout)
    /\ sys_stderr' = StaleBuffer(sys_stderr)
    /\ UNCHANGED <<sys_displayhook, fd2, ns, pc, exec_id, block, old_stdout, old_stderr,
                   old_displayhook, saved_fd, error, stdout_buf, i, pending, reply, sent,
                   ran, raisedAt, ns0, mutes, unmutes, bridgeLog, returned, underscore,
                   callOutcome>>
    /\ UNCHANGED <<histVars, proxyVars, regVars, rwVars, gVars, askVars, snapVars,
                   memVars, hyVars, tkVars, planVars, rankVars, findVars>>

OverlapInit ==
    /\ ov_pc = [h \in Handlers |-> "idle"]
    /\ ov_old = [h \in Handlers |-> NoStreams]
    /\ ov_buf = [h \in Handlers |-> <<>>]
    /\ ov_overlap = FALSE

(***************************************************************************)
(* A session with history and memory that is reset                         *)
(***************************************************************************)
\* The init command of the session.
SessionRegister ==
    /\ ~tools_initialized
    /\ \E hl \in BOOLEAN :
          DoRegister([n \in {"read_file"} |-> [hidden |-> FALSE, inject |-> TRUE]],
                     "agent-1", hl)
    /\ UNCHANGED reg_bridge
    /\ UNCHANGED <<histVars, execVars, proxyVars, extVars>>

\* A statement of a block binds the user name x.
SessionAssign ==
    /\ tools_initialized
    /\ snap_op = "none"
    /\ user_ns' = Update(user_ns, [m \in {"x"} |-> UserValue("1")])
    /\ UNCHANGED <<host_blob, snap_src, snap_frame, snap_op, pre_ns>>
    /\ UNCHANGED <<histVars, execVars, proxyVars, regVars, rwVars, gVars, askVars, laterVars>>

\* The host records a turn in the history of the registered namespace.
SessionAddsTurn == tools_initialized /\ AddTurnNumbered

\* A statement of a block calls _mem.set(key, "d", 0).
SessionSetsMem ==
    /\ tools_initialized
    /\ \E key \in MemKeys :
          /\ mem_store' = Update(mem_store,
                                 [k \in {key} |-> Mem_set(key, PyStr("d"), PyInt(0), mem_turn)])
          /\ mem_stamp' = [mem_stamp EXCEPT ![key] = mem_turn]
    /\ UNCHANGED <<mem_turn, mem_op, mem_pre>>
    /\ UNCHANGED <<histVars, execVars, proxyVars, regVars, rwVars, gVars, askVars, snapVars, hyVars,
                   moreVars>>

(***************************************************************************)
(* Initial state and specifications                                        *)
(***************************************************************************)
HistInit ==
    /\ turns = <<>>
    /\ addCount = 0

ExecInit ==
    /\ sys_stdout = "orig"
    /\ sys_stderr = "orig"
    /\ sys_displayhook = "orig"
    /\ fd2 = "stderr"
    /\ ns = {}
    /\ pc = "idle"
    /\ exec_id = "e1"
    /\ block = EmptyBlock
    /\ old_stdout = "orig"
    /\ old_stderr = "orig"
    /\ old_displayhook = "orig"
    /\ saved_fd = None
    /\ error = NoError
    /\ stdout_buf = <<>>
    /\ i = 0
    /\ pending = NoCall
    /\ reply = NoReply
    /\ sent = <<>>
    /\ ran = {}
    /\ raisedAt = 0
    /\ ns0 = {}
    /\ mutes = 0
    /\ unmutes = 0
    /\ bridgeLog = <<>>
    /\ returned = {}
    /\ underscore = 0
    /\ callOutcome = NoOutcome

ProxyInit ==
    /\ proxyCall = NoInvocation
    /\ dispatched = NoDispatch

RegInit ==
    /\ tool_defs = EmptyMap
    /\ tools_initialized = FALSE
    /\ reg_ns = EmptyMap
    /\ reg_T = {}
    /\ headless = FALSE
    /\ agent_id = ""
    /\ async_tool_names = {}
    /\ async_method_names = HandleMethods
    /\ reg_bridge = {}

RwInit ==
    /\ rw_names = {}
    /\ rw_tree = Leaf
    /\ rw_out = Leaf

GatherInit ==
    /\ g_n = 0
    /\ g_status = <<>>
    /\ g_queue = <<>>
    /\ g_answer = <<>>
    /\ g_order = <<>>
    /\ g_result = <<>>

AskInit ==
    /\ ask_pc = "idle"
    /\ ask_calls = 0
    /\ ask_reply = None
    /\ ask_outcome = NoOutcome

SnapInit ==
    /\ user_ns = EmptyMap
    /\ host_blob = NoBlob
    /\ snap_src = NoSnapSrc
    /\ snap_frame = NoFrame
    /\ snap_op = "none"
    /\ pre_ns = NoPre

MemInit ==
    /\ mem_store = EmptyMap
    /\ mem_turn = 0
    /\ mem_stamp = [k \in MemKeys |-> -1]
    /\ mem_op = NoMemOp
    /\ mem_pre = EmptyMap

HyInit ==
    /\ hy_pc = "idle"
    /\ hy_name = ""
    /\ hy_result = FalsyResult(None)
    /\ hy_value = PyNull

TaskInit ==
    /\ tk_pc = "idle"
    /\ tk_task = ""
    /\ tk_block = <<>>
    /\ tk_code = <<>>
    /\ tk_i = 0
    /\ tk_log = <<>>
    /\ tk_marks = <<>>

PlanInit ==
    /\ pl_pc = "idle"
    /\ pl_tool = ""
    /\ pl_plan = ""
    /\ pl_asks = <<>>
    /\ pl_reply = NoPlanAnswer
    /\ pl_frames = <<>>
    /\ pl_stdout = <<>>
    /\ pl_out = NoOutcome

RankInit ==
    /\ rk_pc = "idle"
    /\ rk_docs = <<>>
    /\ rk_query = <<>>
    /\ rk_mode = None
    /\ rk_regex = NoRegex
    /\ rk_limit = 10
    /\ rk_scores = <<>>
    /\ rk_ranked = <<>>
    /\ rk_items = <<>>
    /\ wt_weight = 1
    /\ wt_factor = 1
    /\ wt_order = <<>>
    /\ wt_scaled = <<>>

FindInit ==
    /\ th_data = <<>>
    /\ th_copy = NoCopy
    /\ hf_pc = "idle"
    /\ hf_query = <<>>
    /\ hf_since = NoSince
    /\ hf_limit = 10
    /\ hf_matches = <<>>

Init == HistInit /\ ExecInit /\ ProxyInit /\ RegInit /\ RwInit /\ GatherInit /\ AskInit
           /\ SnapInit /\ MemInit /\ HyInit /\ TaskInit /\ PlanInit
           /\ RankInit /\ FindInit /\ OverlapInit

ExecCommand ==
    /\ \E id \in ExecIds, blk \in Blocks : ExecStart(id, blk)
    /\ UNCHANGED <<histVars, proxyVars, regVars, extVars>>

NextHist == AddTurnAny
NextHistDefault == AddTurnDefaultIndex
NextExec ==
    \/ ExecCommand
    \/ TurnEnds
    \/ Parse
    \/ Rewrite
    \/ Compile
    \/ LoopExit
    \/ RunPlain
    \/ RunExpr
    \/ RunTool
    \/ HostReply
    \/ Resume
    \/ Finish
NextProxy == ProxyInvoke \/ ProxyReturn
NextReg == RegisterTools \/ ResetRepl \/ UserAssign \/ Dispatch
NextRewrite == RewriteTree \/ RewriteDone
NextAsk == RegisterTools \/ ResetRepl \/ AskInvoke \/ AskAnswer \/ AskDone
NextSnap ==
    \/ SnapRegister
    \/ SnapAssign
    \/ HandleSnapshot
    \/ HandleRestore
    \/ HandleReset
    \/ SnapAck
    \/ SessionStarts
NextMem == MemSetTurn \/ MemSet \/ MemDelete \/ MemLoad \/ HistLoad \/ MemOpDone
NextHydrate == CallReturns \/ CallConsumed
NextClaim == ClaimRegister \/ ClaimInvoke \/ ProxyReturn
NextTask == ClaimRegister \/ TaskExecStart \/ TaskStatement \/ TaskExecDone
NextPlan ==
    \/ RegisterTools
    \/ PlanExitInvoke
    \/ PlanToolReturns
    \/ PlanUserAnswers
    \/ PlanExitDone
NextRank == RankSearch \/ RankReturned
NextFilter == RankFiltered \/ RankReturned
NextTools == AddTurnTools \/ NewHistory
NextScope == RewriteBlock \/ RewriteDone
NextDefs == RewriteDefs \/ RewriteDone
NextReset ==
    \/ SessionRegister
    \/ SessionAssign
    \/ SessionAddsTurn
    \/ SessionSetsMem
    \/ ResetRepl
    \/ HandleReset
    \/ SnapAck
NextOverlap == OverlapStart \/ OverlapPrint \/ OverlapFinish \/ OverlapOver
NextWeight == RankWeighted \/ RankReturned
NextFind == AddTurnNumbered \/ HistFind \/ HistFound
NextCopy == AddTurnSession \/ HistoryCopied \/ NewHistory
NextGather == GatherStart \/ Submit \/ BridgeReturn \/ Receive \/ GatherDone

SpecHist == Init /\ [][NextHist]_vars
SpecHistDefault == Init /\ [][NextHistDefault]_vars
SpecExec == Init /\ [][NextExec]_vars
SpecProxy == Init /\ [][NextProxy]_vars
SpecReg == Init /\ [][NextReg]_vars
SpecRewrite == Init /\ [][NextRewrite]_vars
SpecGather == Init /\ [][NextGather]_vars
SpecAsk == Init /\ [][NextAsk]_vars
SpecSnap == Init /\ [][NextSnap]_vars
SpecMem == Init /\ [][NextMem]_vars
SpecHydrate == Init /\ [][NextHydrate]_vars
SpecClaim == Init /\ [][NextClaim]_vars
SpecTask == Init /\ [][NextTask]_vars
SpecPlan == Init /\ [][NextPlan]_vars
SpecRank == Init /\ [][NextRank]_vars
SpecFilter == Init /\ [][NextFilter]_vars
SpecTools == Init /\ [][NextTools]_vars
SpecCopy == Init /\ [][NextCopy]_vars
SpecFind == Init /\ [][NextFind]_vars
SpecWeight == Init /\ [][NextWeight]_vars
SpecScope == Init /\ [][NextScope]_vars
SpecDefs == Init /\ [][NextDefs]_vars
SpecReset == Init /\ [][NextReset]_vars
SpecOverlap == Init /\ [][NextOverlap]_vars

Next == NextHist \/ NextExec \/ NextProxy \/ NextReg \/ NextRewrite \/ NextGather
           \/ NextAsk \/ NextSnap \/ NextMem \/ NextHydrate
           \/ NextClaim \/ NextTask \/ NextPlan \/ NextRank \/ NextFilter
           \/ NextTools \/ NextCopy \/ NextFind \/ NextWeight \/ NextScope \/ NextDefs \/ NextReset \/ NextOverlap
Spec == Init /\ [][Next]_vars

(***************************************************************************)
(* Properties                                                              *)
(***************************************************************************)
Min(a, b) == IF a < b THEN a ELSE b
MaxOf(S) == CHOOSE m \in S : \A n \in S : n <= m
Range(f) == {f[k] : k \in DOMAIN f}

\* C1: after any sequence of _add_turn calls the history holds at most the cap,
\* its last turn is the one the most recent call added, and the stored turns are
\* the most recent calls in order (the oldest are the ones discarded).
C1_HistoryBoundedNewestLast ==
    /\ Len(turns) <= MAX_TURNS
    /\ Len(turns) = Min(addCount, MAX_TURNS)
    /\ addCount > 0 => turns[Len(turns)].call = addCount
    /\ \A k \in 1..Len(turns) : turns[k].call = addCount - Len(turns) + k

\* The cap was exceeded and old turns were discarded.
C1_CapExceeded ==
    /\ addCount > MAX_TURNS
    /\ Len(turns) = MAX_TURNS
    /\ turns[1].call > 1

\* C2: the index values of the stored turns are strictly increasing in
\* insertion order.
C2_IndexStrictlyIncreasing ==
    \A k \in 1..(Len(turns) - 1) : turns[k].index < turns[k + 1].index

\* The exec_result frames of the current exec that the host has received.
ExecResults == {k \in 1..Len(sent) : sent[k].type = "exec_result" /\ sent[k].id = exec_id}

\* C3: when the handler of an exec command has ended, on whatever path, exactly
\* one exec_result with the exec's id has been sent, and its error is null
\* exactly when parsing succeeded and no executed statement raised.
C3_ExactlyOneExecResult ==
    HandlerEnded =>
        /\ Cardinality(ExecResults) = 1
        /\ \A k \in ExecResults :
              (sent[k].error = NoError) <=> (block.parse = "ok" /\ raisedAt = 0)

\* C4: when a top-level statement raised, no later statement of the block ran,
\* the turn's error is non-null, and the bindings and the output of the earlier
\* statements persist (in the namespace and in the exec_result output).
C4_ErrorHaltsBlock ==
    (HandlerEnded /\ raisedAt # 0) =>
        /\ \A j \in ran : j <= raisedAt
        /\ \A j \in 1..(raisedAt - 1) :
              block.stmts[j].kind \in {"assign", "tool"} => j \in ns
        /\ \E k \in ExecResults :
              /\ sent[k].error # NoError
              /\ Range(sent[k].output) =
                    {j \in 1..(raisedAt - 1) : block.stmts[j].kind \in {"print", "expr"}}

\* C5: when the block failed to parse, no statement was executed (the namespace
\* is unchanged and no tool was invoked) and the turn's error slot holds the
\* parse error.
C5_ParseErrorRunsNothing ==
    (HandlerEnded /\ block.parse # "ok") =>
        /\ ran = {}
        /\ ns = ns0
        /\ bridgeLog = <<>>
        /\ \E k \in ExecResults : sent[k].error = FormatExc(Exc(block.parse))

\* C6: when an exec turn has ended, sys.stdout, sys.stderr and the display hook
\* are the ones installed before the turn began.
C6_StreamsRestored ==
    HandlerEnded =>
        /\ sys_stdout = old_stdout
        /\ sys_stderr = old_stderr
        /\ sys_displayhook = old_displayhook

\* C7: when _handle_exec has finished, fd 2 refers to the original stderr and
\* every descriptor saved by a mute has been restored and closed: no saved
\* descriptor is left, and mutes and unmutes are balanced.
C7_Fd2RestoredBalanced ==
    HandlerEnded =>
        /\ fd2 = "stderr"
        /\ saved_fd = None
        /\ mutes = unmutes

KeysDeclared(c) ==
    /\ DOMAIN c.kw \subseteq Range(c.pnames)
    /\ \A j \in 1..Len(c.args) : c.args[j].dict => DOMAIN c.args[j].map \subseteq Range(c.pnames)

\* The mapping of positional values to declared parameter names, in order.
PositionalNamed(c) ==
    [n \in {c.pnames[j] : j \in 1..Min(Len(c.args), Len(c.pnames))} |->
        c.args[CHOOSE j \in 1..Len(c.pnames) : c.pnames[j] = n]]

\* C9 as stated: the arg-map is the union of the positional values mapped to the
\* declared parameter names and the keyword mapping, the keyword value winning.
C9_UnionOfPositionalNamedAndKw ==
    (proxyCall # NoInvocation /\ KeysDeclared(proxyCall)) =>
        /\ dispatched.name = proxyCall.tool
        /\ dispatched.params = Update(PositionalNamed(proxyCall), proxyCall.kw)

\* Position j of the invocation contributes an entry for key: a mapping
\* contributes its own entries, another value its declared parameter name.
Contributes(c, j, key) ==
    IF c.args[j].dict THEN key \in DOMAIN c.args[j].map
    ELSE j <= Len(c.pnames) /\ c.pnames[j] = key
Contribution(c, j, key) ==
    IF c.args[j].dict THEN Scalar(c.args[j].map[key]) ELSE c.args[j]

\* C9 (amended): the arg-map holds exactly the keyword keys and the keys some
\* positional value contributes; a keyword value wins, otherwise the last
\* contributing positional value does, where a positional mapping contributes
\* its own entries instead of being bound to its slot.
C9_ArgMapMergesDicts ==
    (proxyCall # NoInvocation /\ KeysDeclared(proxyCall)) =>
        LET c == proxyCall
            P == dispatched.params
            from(key) == {j \in 1..Len(c.args) : Contributes(c, j, key)}
        IN /\ dispatched.name = c.tool
           /\ DOMAIN P = DOMAIN c.kw \cup {key \in Keys : from(key) # {}}
           /\ \A key \in DOMAIN P :
                 P[key] = IF key \in DOMAIN c.kw THEN c.kw[key]
                          ELSE Contribution(c, MaxOf(from(key)), key)

\* A dict-style positional argument, a later positional value and a keyword
\* that collides with both.
C9_DictAndCollision ==
    /\ proxyCall # NoInvocation
    /\ KeysDeclared(proxyCall)
    /\ Len(proxyCall.args) = 2
    /\ proxyCall.args[1] = Dict([k \in {"path", "limit"} |-> "a"])
    /\ proxyCall.args[2] = Scalar("b")
    /\ proxyCall.kw = [k \in {"path"} |-> Scalar("b")]
    /\ dispatched.params = [k \in {"path", "limit"} |-> Scalar("b")]

\* Every direct dispatch under a name reached the bridge.
DispatchesReached(n) == \A d \in reg_bridge : d.name = n => d.reached

\* C10 as stated: after registration the name of a hidden tool definition is
\* bound neither in the script namespace nor on T, and a dispatch under the
\* name reaches the bridge.
C10_HiddenNameUnbound ==
    tools_initialized =>
        \A n \in DOMAIN tool_defs :
            tool_defs[n].hidden =>
                /\ n \notin DOMAIN reg_ns
                /\ n \notin reg_T
                /\ DispatchesReached(n)

\* C10 (amended): the name of a hidden tool definition is not bound on T, is
\* bound in the script namespace only as one of the fixed bindings (never as a
\* generated proxy), and a dispatch under the name reaches the bridge.
C10_HiddenNoProxy ==
    tools_initialized =>
        \A n \in DOMAIN tool_defs :
            tool_defs[n].hidden =>
                /\ n \notin reg_T
                /\ n \in DOMAIN reg_ns =>
                      (reg_ns[n] = "builtin" /\ n \in Bindings(headless))
                /\ DispatchesReached(n)

\* Hidden definitions marked inject_into_prompt, one of them under the name of
\* a fixed binding, were registered and dispatched under their names.
C10_HiddenDispatched ==
    /\ tools_initialized
    /\ \A n \in {"read_file", "exit_plan_mode"} :
          /\ n \in DOMAIN tool_defs
          /\ tool_defs[n].hidden
          /\ tool_defs[n].inject
          /\ [name |-> n, reached |-> TRUE] \in reg_bridge
    /\ "read_file" \notin DOMAIN reg_ns

\* C11 as stated: after registration every non-hidden tool definition is bound
\* on T, and its name is bound in the script namespace exactly when the
\* definition has inject_into_prompt.
C11_VisibleOnTGlobalIffInject ==
    tools_initialized =>
        \A n \in DOMAIN tool_defs :
            ~tool_defs[n].hidden =>
                /\ n \in reg_T
                /\ (n \in DOMAIN reg_ns) <=> tool_defs[n].inject

\* C11 (amended): every non-hidden tool definition is bound on T; its proxy
\* (for agent_call, the wrapper) is the bare global of its name exactly when the
\* definition has inject_into_prompt and the name is none of the fixed
\* bindings, and a name that is a fixed binding denotes that built-in.
C11_VisibleOnTProxyIffInject ==
    tools_initialized =>
        \A n \in DOMAIN tool_defs :
            ~tool_defs[n].hidden =>
                /\ n \in reg_T
                /\ (n \in DOMAIN reg_ns) <=>
                      (tool_defs[n].inject \/ n \in Bindings(headless))
                /\ n \in Bindings(headless) => reg_ns[n] = "builtin"
                /\ (tool_defs[n].inject /\ n \notin Bindings(headless)) =>
                      reg_ns[n] = (IF n = "agent_call" THEN "agent_call_wrapper"
                                   ELSE "proxy")

\* Registered: an injected visible agent_call, a visible read_file that is not
\* injected, and a visible exit_plan_mode that is not injected.
C11_VisibleInjectedAndNot ==
    /\ tools_initialized
    /\ DOMAIN tool_defs = RegNames
    /\ \A n \in RegNames : ~tool_defs[n].hidden
    /\ tool_defs["agent_call"].inject
    /\ ~tool_defs["read_file"].inject
    /\ ~tool_defs["exit_plan_mode"].inject
    /\ reg_T = RegNames
    /\ reg_ns["agent_call"] = "agent_call_wrapper"
    /\ "read_file" \notin DOMAIN reg_ns
    /\ reg_ns["exit_plan_mode"] = "builtin"

\* The node of an expression at a path (a sequence of child positions).
RECURSIVE NodeAt(_, _)
NodeAt(t, p) == IF p = <<>> THEN t ELSE NodeAt(t.kids[Head(p)], Tail(p))

RECURSIVE ValidPath(_, _)
ValidPath(t, p) ==
    \/ p = <<>>
    \/ /\ Head(p) \in DOMAIN t.kids
       /\ ValidPath(t.kids[Head(p)], Tail(p))

PathsOf(t) == {p \in UNION {[1..n -> {1, 2}] : n \in 0..MaxDepth} : ValidPath(t, p)}
CallPaths == {p \in PathsOf(rw_tree) : NodeAt(rw_tree, p).kind = "call"}
Ancestors(p) == {SubSeq(p, 1, k) : k \in 0..(Len(p) - 1)}
Parents(p) == {q \in Ancestors(p) : Len(q) = Len(p) - 1}

\* The call at path p of the expression "before" is, in the rewritten
\* expression "after", the operand of an await that "before" does not have.
RECURSIVE WrappedAt(_, _, _)
WrappedAt(before, after, p) ==
    LET wrapped == before.kind = "call" /\ after.kind = "await"
        inner == IF wrapped THEN after.kids[1] ELSE after
    IN IF p = <<>> THEN wrapped
       ELSE WrappedAt(before.kids[Head(p)], inner.kids[Head(p)], Tail(p))

\* Apart from inserted awaits the rewritten expression is the original one.
RECURSIVE SameButAwaits(_, _)
SameButAwaits(before, after) ==
    LET wrapped == before.kind = "call" /\ after.kind = "await"
        inner == IF wrapped THEN after.kids[1] ELSE after
    IN /\ inner.kind = before.kind
       /\ inner.callee = before.callee
       /\ DOMAIN inner.kids = DOMAIN before.kids
       /\ \A k \in DOMAIN before.kids : SameButAwaits(before.kids[k], inner.kids[k])

\* The callee is a bare name of the auto-await name set or an attribute of the
\* auto-await attribute set.
CalleeInSets(node) ==
    \/ node.callee.form = "name" /\ node.callee.id \in rw_names
    \/ node.callee.form = "attr" /\ node.callee.id \in async_method_names

IsAwait(node) == node.kind = "await"
IsGatherLike(node) ==
    /\ node.kind = "call"
    /\ node.callee = [form |-> "attr", recv |-> "asyncio", id |-> node.callee.id]
    /\ node.callee.id \in {"gather", "create_task", "ensure_future", "wait"}

C13_AllInFlightTogether ==
    \A c \in 1..g_n :
        /\ g_status[c] # "queued"
        /\ g_status[c] = "received" => g_result[c].call = c

\* C13 (amended): up to MaxWorkers calls are in flight together; a further
\* call waits in the executor queue exactly while MaxWorkers calls are in
\* flight, and is dispatched in submission order; the host completes the calls
\* in flight in any order, and each awaiter receives the result the bridge
\* returned for its own call.
C13_InFlightUpToWorkers ==
    /\ Cardinality(InFlight) <= MaxWorkers
    /\ g_queue # <<>> => Cardinality(InFlight) = MaxWorkers
    /\ \A k \in 1..Len(g_queue) : g_status[g_queue[k]] = "queued"
    /\ \A k \in 1..(Len(g_queue) - 1) : g_queue[k] < g_queue[k + 1]
    /\ \A c \in 1..g_n :
          /\ g_status[c] = "queued" => c \in Range(g_queue)
          /\ g_status[c] = "received" =>
                (g_result[c] = g_answer[c] /\ g_result[c].call = c)

\* Three calls were awaited together, the third waited for a worker, the host
\* completed the second call first and the first call last, and every awaiter
\* has received its result.
C13_OutOfOrderCompletion ==
    /\ g_n = 3
    /\ g_order = <<2, 3, 1>>
    /\ \A c \in 1..g_n : g_status[c] = "received" /\ g_result[c].call = c

\* The tool statements of the block whose invoke_tool has reached the bridge.
Invoked == {j \in ran : block.stmts[j].kind = "tool"}

\* C14: the tool calls of successive awaited statements reach the bridge in
\* program order, and a call reaches the bridge only after every earlier call
\* of the block has returned its result to the script: at most the current
\* statement's call is outstanding.
C14_ToolCallsInProgramOrder ==
    /\ returned \subseteq Invoked
    /\ Invoked \ returned \subseteq (IF pc \in {"await", "resume"} THEN {i} ELSE {})
    /\ \A j \in Invoked :
          \A k \in 1..(j - 1) :
              block.stmts[k].kind = "tool" => (k \in Invoked /\ k \in returned)
    /\ Len(bridgeLog) = Cardinality(Invoked)
    /\ \A j \in Invoked :
          bridgeLog[Cardinality({k \in Invoked : k <= j})] = block.stmts[j].tool

\* The second of two successive tool statements is at the bridge, after the
\* first has returned.
C14_SecondCallAfterFirstReturned ==
    /\ pc = "await"
    /\ i = 2
    /\ block.stmts[1].kind = "tool"
    /\ block.stmts[2].kind = "tool"
    /\ returned = {1}
    /\ bridgeLog = <<block.stmts[1].tool, block.stmts[2].tool>>
    /\ block.stmts[1].tool # block.stmts[2].tool

\* The message frames of kind "final" sent this turn, and the done statements
\* that ran.
FinalFrames == {k \in 1..Len(sent) : sent[k].type = "message" /\ sent[k].kind = "final"}
DoneRan == {j \in ran : block.stmts[j].kind = "done"}

\* C15: each call of done sends exactly one message frame of kind "final",
\* before the exec_result of its turn, and the sentinel it returns is neither
\* printed by the display hook nor recorded as the last result.
C15_DoneSendsOneFinalFrame ==
    /\ Cardinality(FinalFrames) = Cardinality(DoneRan)
    /\ \A k \in FinalFrames : \A m \in ExecResults : k < m
    /\ \A j \in DoneRan : underscore # j /\ j \notin Range(stdout_buf)

\* x = 1 + 2 followed by done(x): the final frame with text "3" precedes an
\* exec_result with empty output and no error.
C15_ExecThenRespond ==
    /\ pc = "returned"
    /\ Len(block.stmts) = 2
    /\ block.stmts[1].kind = "assign"
    /\ block.stmts[2].kind = "done"
    /\ sent = <<[type |-> "message", text |-> "3", kind |-> "final"],
                ExecResult(exec_id, <<>>, NoError)>>
    /\ underscore = 0

\* C16: in a headless session an invocation of ask raises RuntimeError without
\* any ask_user bridge call, and ask is not bound in the script namespace; in
\* an interactive session ask is bound, makes one ask_user bridge call and
\* returns the host's answer.
C16_AskHeadlessRefused ==
    tools_initialized =>
        IF headless
        THEN /\ "ask" \notin DOMAIN reg_ns
             /\ ask_pc # "waiting"
             /\ ask_calls = 0
             /\ ask_pc = "done" =>
                   ask_outcome = [kind |-> "raise", value |-> "RuntimeError"]
        ELSE /\ "ask" \in DOMAIN reg_ns
             /\ ask_pc = "waiting" => ask_calls = 1
             /\ ask_pc = "done" =>
                   /\ ask_calls = 1
                   /\ ask_reply \in Answers
                   /\ ask_outcome = [kind |-> "return", value |-> ask_reply]

\* ask was invoked in a headless session and has raised.
C16_AskRaisedHeadless ==
    /\ tools_initialized
    /\ headless
    /\ ask_pc = "done"
    /\ ask_outcome.kind = "raise"
    /\ ask_calls = 0

\* The names of the mapping a snapshot_result frame carries.
SnapshotNames == DOMAIN snap_frame.data

\* The helpers, the tool namespace object and the wrappers the claim lists.
ListedHelpers ==
    {"json", "asyncio", "print", "done", "ask", "reset_repl", "enter_plan_mode",
     "exit_plan_mode", "T", "list_tools", "find_tools", "find_history", "find_mem"}

\* C17: every name in a snapshot's mapping does not begin with "_" and is
\* neither one of the listed built-in or injected helpers (json, asyncio,
\* print, done, ask, reset_repl, enter_plan_mode, exit_plan_mode), nor T, nor
\* a registered tool name, nor an introspection/search wrapper.
C17_SnapshotHoldsNoHelperName ==
    snap_op = "snapshot" =>
        \A n \in SnapshotNames :
            /\ ~StartsWithUnderscore(n)
            /\ n \notin ListedHelpers \cup DOMAIN tool_defs

\* The trial serialisation of a candidate of the latest snapshot fails.
TrialFails(value) ==
    value = UserValue("gen") \/ (value.kind # "user" /\ ~snap_src.resolves)

\* C18: a snapshot does not fail because of an un-serialisable value: each
\* non-skipped entry whose trial serialisation fails is omitted, every other
\* non-skipped entry is included, and a snapshot_result frame carrying the id
\* of the request is sent.
C18_SnapshotDropsOnlyUnserialisable ==
    snap_op = "snapshot" =>
        /\ snap_frame.type = "snapshot_result"
        /\ snap_frame.id = pre_ns.id
        /\ \A n \in Candidates(pre_ns.ns, tool_defs) :
              n \in SnapshotNames <=> ~TrialFails(pre_ns.ns[n])

\* A snapshot of a namespace holding a generator and a picklable value: the
\* first is left out, the second is in the frame.
C18_GeneratorDroppedValueKept ==
    /\ snap_op = "snapshot"
    /\ snap_frame.type = "snapshot_result"
    /\ snap_frame.id = "s2"
    /\ "x" \in DOMAIN pre_ns.ns /\ pre_ns.ns["x"] = UserValue("gen")
    /\ "x" \notin SnapshotNames
    /\ "y" \in SnapshotNames

\* Every candidate of the latest snapshot was serialisable.
AllCandidatesSerialisable == \A n \in DOMAIN snap_src.ns : ~TrialFails(snap_src.ns[n])

SessionNames == {"_history", "_mem", "__agent_id__"}
ToolBindingNames ==
    {n \in DOMAIN pre_ns.ns : pre_ns.ns[n].kind \in {"proxy", "agent_call_wrapper"}}
        \cup ({"T"} \cap DOMAIN pre_ns.ns)

\* C20: restore is a union into the live namespace: every name of the
\* restored mapping is bound to the restored value, every other name keeps
\* its binding; and, the blob being one a snapshot produced, _history, _mem,
\* the agent id and the tool bindings are unchanged.
C20_RestoreIsUnionKeepingToolBindings ==
    snap_op = "restore" =>
        LET saved == LoadsHex(host_blob.data)
        IN  /\ \A n \in DOMAIN saved : n \in DOMAIN LiveNs /\ LiveNs[n] = saved[n]
            /\ \A n \in DOMAIN pre_ns.ns \ DOMAIN saved :
                  n \in DOMAIN LiveNs /\ LiveNs[n] = pre_ns.ns[n]
            /\ \A n \in (SessionNames \cap DOMAIN pre_ns.ns) \cup ToolBindingNames :
                  n \in DOMAIN LiveNs /\ LiveNs[n] = pre_ns.ns[n]

\* C21: a reset command removes every user-assigned name, leaves the tool
\* proxies and built-in bindings init produced from the same tool
\* definitions, keeps the agent id and the headless flag of the session, and
\* sends a reset_result frame carrying the id of the request.
C21_ResetRestoresInitBindings ==
    [][(snap_op = "none" /\ snap_op' = "reset") =>
          /\ user_ns' = EmptyMap
          /\ tool_defs' = tool_defs
          /\ reg_ns' = reg_ns
          /\ reg_T' = reg_T
          /\ agent_id' = agent_id
          /\ headless' = headless
          /\ snap_frame'.type = "reset_result"
          /\ snap_frame'.id = pre_ns'.id]_vars

\* A reset of a headless session of agent-2 in which x was bound and the
\* read_file proxy was shadowed: afterwards x is unbound and read_file is the
\* proxy again.
C21_ResetDroppedUserNames ==
    /\ snap_op = "reset"
    /\ snap_frame = [type |-> "reset_result", id |-> "s2", data |-> EmptyMap]
    /\ "x" \in DOMAIN pre_ns.ns
    /\ "read_file" \in DOMAIN pre_ns.ns /\ pre_ns.ns["read_file"].kind = "user"
    /\ "x" \notin DOMAIN LiveNs
    /\ "read_file" \in DOMAIN LiveNs /\ LiveNs["read_file"].kind = "proxy"
    /\ headless
    /\ agent_id = "agent-2"

\* C22: for the same key, the turn stamped on its MemEntry never decreases
\* from one write to the next, over any sequence of _set_turn, set, delete
\* and _load operations.
C22_EntryTurnNeverDecreases ==
    [][\A k \in MemKeys : mem_stamp[k] # -1 => mem_stamp'[k] >= mem_stamp[k]]_vars

\* C23: after mem.set(k, d, v) while the current turn is t, the entry of k
\* has turn t, description str(d) and value str(v), or str(d) when v is
\* None; it replaces an earlier entry of k, so a rewrite adds no key; the
\* entries of the other keys are unchanged.
C23_SetStoresStringifiedEntry ==
    mem_op.op = "set" =>
        LET k == mem_op.key
        IN  /\ k \in DOMAIN mem_store
            /\ mem_store[k].turn = mem_turn
            /\ mem_store[k].description = Str(mem_op.description)
            /\ mem_store[k].value =
                  (IF mem_op.value = PyNone THEN Str(mem_op.description)
                   ELSE Str(mem_op.value))
            /\ DOMAIN mem_store = DOMAIN mem_pre \cup {k}
            /\ \A o \in DOMAIN mem_pre \ {k} : mem_store[o] = mem_pre[o]

\* A rewrite of k1 in a later turn, with description 7 and value 0, while k2
\* is stored too: the entry holds "7" and "0" and the new turn.
C23_RewriteInLaterTurn ==
    /\ mem_op.op = "set" /\ mem_op.key = "k1"
    /\ mem_op.description = PyInt(7) /\ mem_op.value = PyInt(0)
    /\ "k1" \in DOMAIN mem_pre /\ mem_pre["k1"].turn < mem_turn
    /\ "k2" \in DOMAIN mem_pre
    /\ mem_store["k1"] = MemEntry("k1", "7", "0", mem_turn)
    /\ Cardinality(DOMAIN mem_store) = 2

\* C24: a parent's non-empty history and memory, serialised with _serialize
\* and loaded with _load into a fresh child session, give the child a history
\* and a memory of at most the parent's cardinality, of the parent's
\* cardinality when the parent is within the cap, and a history longer than
\* the cap is loaded as its most recent cap-many turns in order.
C24_ChildLoadsParentState ==
    /\ (mem_op.op = "load" /\ mem_pre = EmptyMap) =>
          Cardinality(DOMAIN mem_store) = Cardinality(DOMAIN mem_op.mem)
    /\ mem_op.op = "hist_load" =>
          LET parent == mem_op.hist
              dropped == IF Len(parent) > MAX_TURNS THEN Len(parent) - MAX_TURNS ELSE 0
          IN  /\ Len(turns) <= Len(parent)
              /\ Len(parent) <= MAX_TURNS => Len(turns) = Len(parent)
              /\ Len(parent) > MAX_TURNS => Len(turns) = MAX_TURNS
              /\ \A j \in 1..Len(turns) : TurnDict(turns[j]) = TurnDict(parent[dropped + j])

\* A child that loaded a history one turn longer than the cap: it holds the
\* parent's turns from the second one on.
C24_LoadedLongerThanCap ==
    /\ mem_op.op = "hist_load"
    /\ Len(mem_op.hist) = MAX_TURNS + 1
    /\ Len(turns) = MAX_TURNS
    /\ turns[1].index = 1
    /\ turns[1].user_message # turns[2].user_message

\* The __handle__ and __type__ discriminators of the decoded result, "" when
\* it is no mapping or has none; the items of a list result.
ResultHandle ==
    IF hy_result.doc.py = "dict" /\ "__handle__" \in DOMAIN hy_result.doc.d
    THEN hy_result.doc.d["__handle__"] ELSE ""
ResultType ==
    IF hy_result.doc.py = "dict" /\ "__type__" \in DOMAIN hy_result.doc.d
    THEN hy_result.doc.d["__type__"] ELSE ""
ResultItems ==
    IF "items" \in DOMAIN hy_result.doc.d THEN hy_result.doc.d["items"] ELSE <<>>

\* C25: on a success envelope _call returns a ShellHandle(id) for a mapping
\* with __handle__ = "shell", an AgentHandle(id) for __handle__ = "agent", a
\* Task, list of Task, Skill, SkillSummary or list of SkillSummary for
\* __type__ task, task_list, skill, skill_summary, skill_list, and otherwise
\* the decoded value unchanged, None for an empty result.
C25_SuccessValueWrapped ==
    hy_pc = "returned" =>
        IF hy_result.falsy THEN hy_value = PyNull
        ELSE /\ ResultHandle = "shell" =>
                  hy_value = [py |-> "ShellHandle", id |-> hy_result.doc.d["id"]]
             /\ ResultHandle = "agent" =>
                  hy_value = [py |-> "AgentHandle", id |-> hy_result.doc.d["id"]]
             /\ ResultType = "task" =>
                  hy_value = [py |-> "Task", id |-> hy_result.doc.d["id"]]
             /\ ResultType = "skill" =>
                  hy_value = [py |-> "Skill", name |-> hy_result.doc.d["name"]]
             /\ ResultType = "skill_summary" =>
                  hy_value = [py |-> "SkillSummary", name |-> hy_result.doc.d["name"]]
             /\ ResultType = "task_list" =>
                  /\ hy_value.py = "list"
                  /\ Len(hy_value.l) = Len(ResultItems)
                  /\ \A j \in 1..Len(ResultItems) :
                        hy_value.l[j] = [py |-> "Task", id |-> ResultItems[j]["id"]]
             /\ ResultType = "skill_list" =>
                  /\ hy_value.py = "list"
                  /\ Len(hy_value.l) = Len(ResultItems)
                  /\ \A j \in 1..Len(ResultItems) :
                        hy_value.l[j] = [py |-> "SkillSummary", name |-> ResultItems[j]["name"]]
             /\ (/\ ResultHandle \notin {"shell", "agent"}
                 /\ ResultType \notin {"task", "task_list", "skill", "skill_summary",
                                       "skill_list"}) =>
                  hy_value = hy_result.doc

\* _call returned an AgentHandle for the agent "b".
C25_AgentHandleReturned ==
    /\ hy_pc = "returned"
    /\ ResultHandle = "agent"
    /\ hy_value = [py |-> "AgentHandle", id |-> "b"]

\* The script gave claim_task no owner: none by keyword, no second positional
\* argument.
NoOwnerGiven ==
    /\ proxyCall.tool = "claim_task"
    /\ "owner" \notin DOMAIN proxyCall.kw
    /\ Len(proxyCall.args) < 2

\* C26: a call of the claim_task proxy without an owner dispatches claim_task
\* with owner equal to the session agent id; the id may be omitted.
C26_ClaimTaskOwnerFilled ==
    NoOwnerGiven =>
        /\ dispatched.name = "claim_task"
        /\ "owner" \in DOMAIN dispatched.params
        /\ dispatched.params["owner"] = Scalar(agent_id)

\* The _call invocations statement k of the block made before statement k + 1
\* began (or so far, when k is the last one that ran).
CallsOfStatement(k) ==
    SubSeq(tk_log, tk_marks[k] + 1,
           IF k < Len(tk_marks) THEN tk_marks[k + 1] ELSE Len(tk_log))

\* C27: a statement t.start() written without await has made, before the next
\* statement runs, exactly one claim_task invocation, with the id of the task
\* and the session agent id as owner.
C27_StartStatementClaimsOnce ==
    \A k \in 1..Len(tk_marks) :
        tk_block[k] = StartStatement =>
            CallsOfStatement(k) =
                <<[name |-> "claim_task",
                   params |-> ("id" :> tk_task @@ "owner" :> agent_id)]>>

\* C27 witness: t.start() was the first statement and the second has run.
C27_NextStatementRanAfterStart ==
    /\ Len(tk_marks) = 2
    /\ tk_block[1] = StartStatement
    /\ tk_marks[2] = 1
    /\ agent_id \in AgentIds

\* The final frames sent during the call.
PlanFinals == SelectSeq(pl_frames, LAMBDA f : f.kind = "final")

\* A headless exit_plan_mode makes no ask_user call and sends no final frame.
HeadlessPlanExit == headless => pl_asks = <<>> /\ PlanFinals = <<>>

\* What an interactive exit_plan_mode has done when it is over.
InteractivePlanExit ==
    /\ Len(pl_asks) = 1
    /\ pl_asks[1].options = <<"Execute plan", "Edit plan", "Reject">>
    /\ IF pl_reply.option = 1
       THEN PlanFinals = <<FinalFrame("Plan approved - executing.")>>
       ELSE PlanFinals = <<>>

HybridBefore(a, b) == a.score > b.score \/ (a.score = b.score /\ a.idx < b.idx)

\* C29: hybrid matches are in descending score with ties in corpus order;
\* literal and regex matches are in corpus order and all have score 0.
C29_MatchesOrdered ==
    rk_pc = "ranked" =>
        \A j, k \in DOMAIN rk_items :
            j < k =>
                IF CoerceFindMode(rk_mode) = "hybrid"
                THEN HybridBefore(rk_items[j], rk_items[k])
                ELSE /\ rk_items[j].idx < rk_items[k].idx
                     /\ rk_items[j].score = 0
                     /\ rk_items[k].score = 0

\* C29 witness: a hybrid search whose best match is not the first document
\* and whose other two matches tie.
C29_TieAfterBestMatch ==
    /\ rk_pc = "ranked"
    /\ rk_mode = "hybrid"
    /\ Len(rk_items) = 3
    /\ rk_items[1].idx # 1
    /\ rk_items[2].score = rk_items[3].score
    /\ rk_items[2].score > 0

\* The documents an empty query is said to match: all of them, less those the
\* regex post-filter rejects.
PassPostFilter ==
    SelectSeq(CorpusOrder(Len(rk_docs)),
              LAMBDA d : (rk_regex.given /\ rk_regex.pattern # <<>>) =>
                             Contains(Lower(rk_docs[d]), Lower(rk_regex.pattern)))

\* C30: an explicit empty query matches every document in hybrid and in
\* literal mode, subject only to the regex post-filter and the limit.
C30_EmptyQueryMatchesAll ==
    (rk_pc = "ranked" /\ rk_query = <<>> /\ CoerceFindMode(rk_mode) \in {"hybrid", "literal"}) =>
        [k \in DOMAIN rk_items |-> rk_items[k].idx]
            = Slice(PassPostFilter, CoerceLimit(rk_limit))

\* The text matches the pattern read as a regular expression, or as literal
\* text when it is no regular expression, without regard to case.
MatchesAsRegex(pattern, text) ==
    \E at \in 0..(Len(text) - Len(pattern)) :
        \A k \in DOMAIN pattern :
            IF pattern[k] = "." /\ (\A j \in DOMAIN pattern : pattern[j] # "(")
            THEN text[at + k] # "\n"
            ELSE Lower(pattern)[k] = Lower(text)[at + k]

\* The match condition of the mode itself, on the query.
ModeCondition(mode, query, text, score) ==
    IF mode = "regex" THEN MatchesAsRegex(query, text)
    ELSE IF mode = "literal" THEN Contains(Lower(text), Lower(query))
    ELSE score > 0 \/ Contains(Lower(text), Lower(query))

\* C31: in every mode, with a regex argument, every returned document matches
\* the regex without regard to case and satisfies the mode's own condition; a
\* regex that does not compile is read as literal text.
C31_RegexIsConjunctiveFilter ==
    (rk_pc = "ranked" /\ rk_regex.given /\ rk_regex.pattern # <<>>) =>
        \A k \in DOMAIN rk_items :
            /\ MatchesAsRegex(rk_regex.pattern, rk_docs[rk_items[k].idx])
            /\ ModeCondition(CoerceFindMode(rk_mode), rk_query,
                             rk_docs[rk_items[k].idx], rk_items[k].score)

\* The path a reported tool call carries: the "path" member of its args
\* object, given as an object or as JSON text; "" when there is none.
ReportedPath(tc_data) ==
    IF tc_data.args.kind \in {"dict", "str"} /\ tc_data.args.parses
       /\ "path" \in DOMAIN tc_data.args.map
    THEN tc_data.args.map["path"]
    ELSE ""

\* The paths of the reported calls of the given kinds, in call order.
PathsOfKinds(kinds) ==
    LET calls == SelectSeq(th_data.tool_calls,
                           LAMBDA d : d.tool \in kinds /\ ReportedPath(d) # "")
    IN  [k \in DOMAIN calls |-> ReportedPath(calls[k])]

\* C34: the files_read of an added turn are the paths of its read_file, glob
\* and grep calls, its files_written those of its write_file, edit_file,
\* find_replace and diff_file calls; other calls and calls without a path
\* add to neither.
C34_FilesDerivedFromToolCalls ==
    (th_data # <<>> /\ turns # <<>>) =>
        /\ turns[Len(turns)].files_read = PathsOfKinds({"read_file", "glob", "grep"})
        /\ turns[Len(turns)].files_written =
               PathsOfKinds({"write_file", "edit_file", "find_replace", "diff_file"})

\* C34 witness: a turn with a grep call and an ls call, both with a path.
C34_ReadAndOtherCall ==
    /\ turns # <<>>
    /\ th_data # <<>>
    /\ Len(th_data.tool_calls) = 2
    /\ th_data.tool_calls[1].tool = "grep"
    /\ th_data.tool_calls[2].tool = "ls"
    /\ ReportedPath(th_data.tool_calls[2]) = "p"
    /\ turns[1].files_read = <<"q">>
    /\ turns[1].files_written = <<>>

\* The fields of a Turn the source defines.
TurnFields ==
    {"index", "user_message", "prose", "code", "output", "error", "tool_calls",
     "files_read", "files_written"}

\* C40: loading the output of _serialize into an empty history gives the same
\* turns in the same order: index, user_message, prose, code, output, error,
\* tool calls, files_read and files_written.
C40_SerialiseLoadReproducesTurns ==
    th_copy.loaded =>
        /\ Len(th_copy.turns) = Len(turns)
        /\ \A j \in 1..Len(turns) : \A f \in TurnFields : th_copy.turns[j][f] = turns[j][f]

\* C40 witness: the copied history lost its oldest turns to the cap and holds
\* a turn with a file read and a turn whose index repeats an earlier one.
C40_CopiedTrimmedHistory ==
    /\ th_copy.loaded
    /\ Len(th_copy.turns) = MAX_TURNS
    /\ addCount > MAX_TURNS
    /\ \E j \in 1..Len(th_copy.turns) : th_copy.turns[j].files_read = <<"q">>
    /\ \E j \in 2..Len(th_copy.turns) :
          th_copy.turns[j].index <= th_copy.turns[j - 1].index

\* C32: a history search with since_turn = c returns only turns whose stored
\* index is at least c; the stored index of a retained turn is the index the
\* host gave it (here the number of the _add_turn call less one), whatever
\* its position after trimming.
C32_SinceTurnFiltersByStoredIndex ==
    /\ \A j \in 1..Len(turns) : turns[j].index = turns[j].call - 1
    /\ (hf_pc = "found" /\ hf_since # NoSince) =>
          \A k \in DOMAIN hf_matches :
              /\ hf_matches[k].turn >= hf_since
              /\ \E j \in 1..Len(turns) : turns[j].index = hf_matches[k].turn

\* C32 witness: after trimming, a search returned a turn whose position in
\* the history is below the cutoff and whose index is not.
C32_ReturnedTurnBelowCutoffPosition ==
    /\ hf_pc = "found"
    /\ hf_since # NoSince
    /\ addCount > MAX_TURNS
    /\ \E k \in DOMAIN hf_matches : \E j \in 1..Len(turns) :
          /\ turns[j].index = hf_matches[k].turn
          /\ j - 1 < hf_since
          /\ Len(hf_matches) < Len(turns)

\* C33: multiplying all field weights by the same positive constant leaves
\* the hybrid ranking, the order of the returned documents, unchanged.
C33_ScaledWeightsKeepRanking ==
    (rk_pc = "ranked" /\ wt_order # <<>>) => wt_scaled = wt_order

\* The paths of the tool calls of the block.
ToolCallPaths == {p \in CallPaths : CalleeInSets(NodeAt(rw_tree, p))}
\* The call at path p lies inside an await or inside a call of
\* asyncio.gather / create_task / ensure_future / wait.
Enclosed(p) ==
    \E q \in Ancestors(p) : IsAwait(NodeAt(rw_tree, q)) \/ IsGatherLike(NodeAt(rw_tree, q))

InSyncBody(p) == \E q \in Ancestors(p) : NodeAt(rw_tree, q).kind \in {"def", "lambda"}

\* C37: the rewriter inserts no await inside the body of a synchronous
\* function definition or of a lambda, and a block that compiles without the
\* rewrite compiles after it.
C37_RewriteKeepsBlockCompiling ==
    rw_tree.kind = "module" =>
        /\ \A p \in CallPaths : InSyncBody(p) => ~WrappedAt(rw_tree, rw_out, p)
        /\ Compiles(rw_tree, "top") => Compiles(rw_out, "top")

\* The handler is executing a top-level statement: it runs it, is suspended
\* at the await on a tool call, or resumes from it.
StatementExecuting == pc \in {"run", "await", "resume"}

\* C36: fd 2 is redirected to the sink only while the handler parses,
\* rewrites and compiles; whenever a top-level statement is executing,
\* also while it is suspended at an await on a tool call, fd 2 is the
\* original stderr.
C36_Fd2MutedOnlyWhileCompiling ==
    /\ StatementExecuting => fd2 = "stderr"
    /\ fd2 = "devnull" => pc \in {"parse", "rewrite", "loop", "finish"}

\* C39: a reset, by the reset command or by reset_repl() called from a
\* block, leaves _history and _mem fresh and empty, and what runs next runs
\* against the re-registered namespace: no user name is left and the names
\* of the registration are bound again.
C39_ResetDiscardsHistoryAndMemory ==
    [][(ResetRepl \/ HandleReset) =>
          /\ turns' = <<>>
          /\ mem_store' = EmptyMap
          /\ mem_turn' = 0
          /\ user_ns' = EmptyMap
          /\ tools_initialized'
          /\ reg_ns' = RegisteredNs(tool_defs, headless)]_vars

\* C39 witness: the reset command was handled in a session that had recorded
\* turns, bound a user name and written a memory key; the history is empty,
\* the key is gone, and a write made after the reset is in the new memory.
C39_ResetAfterTurnsAndMemory ==
    /\ snap_op = "reset"
    /\ addCount > 0
    /\ turns = <<>>
    /\ pre_ns.ns # LiveNs
    /\ user_ns = EmptyMap
    /\ \E k1 \in MemKeys, k2 \in MemKeys :
          /\ mem_stamp[k1] >= 0
          /\ k1 \notin DOMAIN mem_store
          /\ k2 \in DOMAIN mem_store

\* C38: when two exec handlers overlapped and both have finished, in either
\* order, sys.stdout and sys.stderr are the original streams and not a
\* capture buffer of one of the turns.
C38_StreamsOriginalAfterOverlap ==
    (ov_overlap /\ \A h \in Handlers : ov_pc[h] = "done") =>
        /\ sys_stdout = "orig"
        /\ sys_stderr = "orig"
====
